---- MODULE Spec2Model ----
(***************************************************************************)
(* Client side of the agentd wire protocol as exercised by v-c-it:         *)
(* agentd_connection_init (the handshake), and the send / receive / verify *)
(* helpers that run on the session the handshake establishes.              *)
(***************************************************************************)
EXTENDS Integers, Sequences, FiniteSets, TLC

(***************************************************************************)
(* Bounds of the model.                                                    *)
(***************************************************************************)
\* longest public encryption key, in bytes, the model enumerates
MaxKeyLen == 2
\* number of helper calls made on one session
MaxCalls == 2
\* pings one caller issues, one after another
MaxPings == 2
\* messages the agent delivers to the sentinel that answer no caller
MaxInjected == 1
\* rounds of a program's loop the model follows
MaxRounds == 2

(***************************************************************************)
(* Status codes, include/helpers/status_codes.h.                           *)
(***************************************************************************)
STATUS_SUCCESS == 0
ERROR_CRYPTO_SUITE_INIT == 1
ERROR_FILE_ABSTRACTION_INIT == 2
ERROR_CERTIFICATE_BUILDER_INIT == 3
ERROR_CERTIFICATE_PARSER_INIT == 4
ERROR_TRANSACTION_CERT_CREATE == 5
ERROR_SEND_BLOCK_REQ == 6
ERROR_RECV_BLOCK_RESP == 7
ERROR_DECODE_BLOCK_RESP == 8
ERROR_GET_BLOCK_REQUEST_ID == 9
ERROR_GET_BLOCK_STATUS == 10
ERROR_GET_BLOCK_OFFSET == 11
ERROR_DECODE_BLOCK_RESP_DATA == 12
ERROR_SEND_TXN_REQ == 13
ERROR_RECV_TXN_RESP == 14
ERROR_DECODE_TXN_RESP == 15
ERROR_TXN_SUBMIT_REQUEST_ID == 16
ERROR_TXN_SUBMIT_STATUS == 17
ERROR_TXN_SUBMIT_OFFSET == 18
ERROR_SEND_NEXT_BLOCK_ID_REQ == 19
ERROR_RECV_NEXT_BLOCK_ID_RESP == 20
ERROR_DECODE_NEXT_BLOCK_ID == 21
ERROR_NEXT_BLOCK_ID_REQUEST_ID == 22
ERROR_NEXT_BLOCK_ID_STATUS == 23
ERROR_NEXT_BLOCK_ID_OFFSET == 24
ERROR_DECODE_NEXT_BLOCK_ID_DATA == 25
ERROR_PARSER_INIT == 26
ERROR_TXN_NOT_FOUND == 27
ERROR_TXN_SEARCH_FAILED == 28
ERROR_PUBLIC_CERT_STAT == 29
ERROR_PUBLIC_CERT_BUFFER_CREATE == 30
ERROR_PUBLIC_CERT_FILE_OPEN == 31
ERROR_PUBLIC_CERT_FILE_READ == 32
ERROR_PUBLIC_CERT_FILE_PARSE == 33
ERROR_AGENTD_SOCKET_CONNECT == 34
ERROR_PRIVATE_CERT_STAT == 35
ERROR_PRIVATE_CERT_BUFFER_CREATE == 36
ERROR_PRIVATE_CERT_FILE_OPEN == 37
ERROR_PRIVATE_CERT_FILE_READ == 38
ERROR_PRIVATE_CERT_FILE_PARSE == 39
ERROR_SEND_LATEST_BLOCK_ID_REQ == 40
ERROR_RECV_LATEST_BLOCK_ID_RESP == 41
ERROR_DECODE_LATEST_BLOCK_ID == 42
ERROR_LATEST_BLOCK_ID_REQUEST_ID == 43
ERROR_LATEST_BLOCK_ID_STATUS == 44
ERROR_LATEST_BLOCK_ID_OFFSET == 45
ERROR_DECODE_LATEST_BLOCK_ID_DATA == 46
ERROR_LATEST_BLOCK_ID_MISMATCH == 47
ERROR_NEXT_ID_LATEST_ID_MISMATCH == 48
ERROR_PREV_ID_ROOT_ID_MISMATCH == 49
ERROR_PREV_ID_ROOT_ID_MISMATCH2 == 50
ERROR_NEXT_NEXT_BLOCK_ID_MISMATCH == 51
ERROR_SEND_PREV_BLOCK_ID_REQ == 52
ERROR_RECV_PREV_BLOCK_ID_RESP == 53
ERROR_DECODE_PREV_BLOCK_ID == 54
ERROR_PREV_BLOCK_ID_REQUEST_ID == 55
ERROR_PREV_BLOCK_ID_STATUS == 56
ERROR_PREV_BLOCK_ID_OFFSET == 57
ERROR_DECODE_PREV_BLOCK_ID_DATA == 58
ERROR_TXN_ID_FIRST_ID_MISMATCH == 59
ERROR_SEND_FIRST_TXN_ID_REQ == 60
ERROR_RECV_FIRST_TXN_ID_RESP == 61
ERROR_DECODE_FIRST_TXN_ID == 62
ERROR_FIRST_TXN_ID_REQUEST_ID == 63
ERROR_FIRST_TXN_ID_STATUS == 64
ERROR_FIRST_TXN_ID_OFFSET == 65
ERROR_DECODE_FIRST_TXN_ID_DATA == 66
ERROR_TXN_ID_LAST_ID_MISMATCH == 67
ERROR_SEND_LAST_TXN_ID_REQ == 68
ERROR_RECV_LAST_TXN_ID_RESP == 69
ERROR_DECODE_LAST_TXN_ID == 70
ERROR_LAST_TXN_ID_REQUEST_ID == 71
ERROR_LAST_TXN_ID_STATUS == 72
ERROR_LAST_TXN_ID_OFFSET == 73
ERROR_DECODE_LAST_TXN_ID_DATA == 74
ERROR_TXN_PREV_ID_ZERO_ID_MISMATCH == 75
ERROR_TXN_NEXT_ID_FF_ID_MISMATCH == 76
ERROR_TXN_ARTIFACT_ID_MISMATCH == 77
ERROR_TXN_BLOCK_ID_MISMATCH == 78
ERROR_GET_TXN_REQUEST_ID == 79
ERROR_GET_TXN_STATUS == 80
ERROR_GET_TXN_OFFSET == 81
ERROR_DECODE_TXN_RESP_DATA == 82
ERROR_BLOCK_ID_1_MISMATCH == 83
ERROR_SEND_BLOCK_ID_BY_HEIGHT_REQ == 84
ERROR_RECV_BLOCK_ID_BY_HEIGHT_RESP == 85
ERROR_DECODE_BLOCK_ID_BY_HEIGHT == 86
ERROR_BLOCK_ID_BY_HEIGHT_REQUEST_ID == 87
ERROR_BLOCK_ID_BY_HEIGHT_STATUS == 88
ERROR_BLOCK_ID_BY_HEIGHT_OFFSET == 89
ERROR_DECODE_BLOCK_ID_BY_HEIGHT_DATA == 90
ERROR_BLOCK_ID_0_MISMATCH == 91
ERROR_SEND_NEXT_TXN_ID_REQ == 92
ERROR_RECV_NEXT_TXN_ID_RESP == 93
ERROR_DECODE_NEXT_TXN_ID == 94
ERROR_NEXT_TXN_ID_REQUEST_ID == 95
ERROR_NEXT_TXN_ID_STATUS == 96
ERROR_NEXT_TXN_ID_OFFSET == 97
ERROR_DECODE_NEXT_TXN_ID_DATA == 98
ERROR_SEND_PREV_TXN_ID_REQ == 99
ERROR_SEND_HANDSHAKE_REQ == 101
ERROR_RECV_HANDSHAKE_RESP == 102
ERROR_SERVER_ID_MISMATCH == 103
ERROR_SERVER_KEY_MISMATCH == 104
ERROR_SEND_HANDSHAKE_ACK == 105
ERROR_RECV_HANDSHAKE_ACK == 106
ERROR_DECODE_HANDSHAKE_ACK == 107
ERROR_HANDSHAKE_ACK_REQUEST_ID == 108
ERROR_HANDSHAKE_ACK_STATUS == 109
ERROR_RECV_PREV_TXN_ID_RESP == 100
ERROR_DECODE_PREV_TXN_ID == 110
ERROR_PREV_TXN_ID_REQUEST_ID == 111
ERROR_PREV_TXN_ID_STATUS == 112
ERROR_PREV_TXN_ID_OFFSET == 113
ERROR_DECODE_PREV_TXN_ID_DATA == 114
ERROR_SEND_TXN_BLOCK_ID_REQ == 115
ERROR_RECV_TXN_BLOCK_ID_RESP == 116
ERROR_DECODE_TXN_BLOCK_ID == 117
ERROR_TXN_BLOCK_ID_REQUEST_ID == 118
ERROR_TXN_BLOCK_ID_STATUS == 119
ERROR_TXN_BLOCK_ID_OFFSET == 120
ERROR_DECODE_TXN_BLOCK_ID_DATA == 121
ERROR_SEND_STATUS_REQ == 122
ERROR_RECV_STATUS_RESP == 123
ERROR_DECODE_STATUS == 124
ERROR_STATUS_REQUEST_ID == 125
ERROR_STATUS_STATUS == 126
ERROR_STATUS_OFFSET == 127
ERROR_DECODE_STATUS_DATA == 128
ERROR_SEND_CLOSE_REQ == 129
ERROR_RECV_CLOSE_RESP == 130
ERROR_DECODE_CLOSE == 131
ERROR_CLOSE_REQUEST_ID == 132
ERROR_CLOSE_STATUS == 133
ERROR_CLOSE_OFFSET == 134
ERROR_DECODE_CLOSE_DATA == 135
ERROR_EXTENDED_API_ENABLE_REQ == 136
ERROR_RECV_EXTENDED_API_ENABLE_RESP == 137
ERROR_DECODE_EXTENDED_API_ENABLE_HEADER == 138
ERROR_EXTENDED_API_ENABLE_REQUEST_ID == 139
ERROR_EXTENDED_API_ENABLE_STATUS == 140
ERROR_EXTENDED_API_ENABLE_OFFSET == 141
ERROR_DECODE_EXTENDED_API_ENABLE == 142
ERROR_TXN1_PREV_ID_MISMATCH == 200
ERROR_TXN1_NEXT_ID_MISMATCH == 201
ERROR_TXN1_ARTIFACT_ID_MISMATCH == 202
ERROR_TXN2_PREV_ID_MISMATCH == 203
ERROR_TXN2_NEXT_ID_MISMATCH == 204
ERROR_TXN2_ARTIFACT_ID_MISMATCH == 205
ERROR_TXN3_PREV_ID_MISMATCH == 206
ERROR_TXN3_NEXT_ID_MISMATCH == 207
ERROR_TXN3_ARTIFACT_ID_MISMATCH == 208
ERROR_TXN1_NEXT_ID_MISMATCH2 == 209
ERROR_TXN2_NEXT_ID_MISMATCH2 == 210
ERROR_TXN3_PREV_ID_MISMATCH2 == 211
ERROR_TXN2_PREV_ID_MISMATCH2 == 212
ERROR_TXN1_BLOCK_ID_MISMATCH == 213
ERROR_TXN2_BLOCK_ID_MISMATCH == 214
ERROR_TXN3_BLOCK_ID_MISMATCH == 215

(***************************************************************************)
(* Values the environment supplies.                                        *)
(***************************************************************************)
\* size of an artifact id, the length crypto_memcmp is given
UUID_SIZE == 16

\* three artifact ids: a base id and two ids one bit away from it
UUIDs ==
    { [i \in 1..UUID_SIZE |-> 0],
      [i \in 1..UUID_SIZE |-> IF i = 1 THEN 1 ELSE 0],
      [i \in 1..UUID_SIZE |-> IF i = UUID_SIZE THEN 1 ELSE 0] }

\* public encryption keys: byte strings of every size up to MaxKeyLen
PubKeys == UNION { [1..n -> 0..1] : n \in 1..MaxKeyLen }

\* non-zero codes a vcblockchain / rcpr call can fail with
LibraryErrors == {4097, 4098}

\* size of the shared secret the crypto suite's key agreement produces
KEY_SIZE == 32

\* value both IV counters are initialised to at the acknowledgement step
INITIAL_IV == 1

\* the values the caller's client_iv / server_iv hold before the handshake
UninitialisedIvs == {0, 7}

NoValue == << >>

(***************************************************************************)
(* Request ids of the protocol (vcblockchain/protocol/data.h).             *)
(***************************************************************************)
PROTOCOL_REQ_ID ==
    [ HANDSHAKE_INITIATE |-> 0,
      HANDSHAKE_ACKNOWLEDGE |-> 1,
      LATEST_BLOCK_ID_GET |-> 2,
      BLOCK_ID_BY_HEIGHT_GET |-> 3,
      BLOCK_BY_ID_GET |-> 4,
      BLOCK_ID_GET_NEXT |-> 5,
      BLOCK_ID_GET_PREV |-> 6,
      TRANSACTION_SUBMIT |-> 7,
      TRANSACTION_BY_ID_GET |-> 8,
      TRANSACTION_ID_GET_NEXT |-> 9,
      TRANSACTION_ID_GET_PREV |-> 10,
      TRANSACTION_ID_GET_BLOCK_ID |-> 11,
      ARTIFACT_FIRST_TXN_BY_ID_GET |-> 12,
      ARTIFACT_LAST_TXN_BY_ID_GET |-> 13,
      STATUS_GET |-> 14,
      CLOSE |-> 15,
      EXTENDED_API_ENABLE |-> 16,
      EXTENDED_API_SENDRECV |-> 17,
      EXTENDED_API_CLIENTREQ |-> 18,
      EXTENDED_API_SENDRESP |-> 19 ]

(***************************************************************************)
(* Library contracts the helpers rely on.                                  *)
(***************************************************************************)
\* crypto_memcmp(a, b, n): zero iff the first n bytes of a and b agree
crypto_memcmp(a, b, n) ==
    IF \A i \in 1..n : a[i] = b[i] THEN 0 ELSE 1

\* the secure envelope's send: the counter advances on a successful write
SecureSend(iv, ok) == IF ok THEN iv + 1 ELSE iv

\* the secure envelope's receive: the counter advances on a successful read
SecureRecv(iv, ok) == IF ok THEN iv + 1 ELSE iv

\* vcblockchain_protocol_sendreq_handshake_ack(sock, suite, first, second,..):
\* both counters are initialised, then the acknowledgement is sent under the
\* first one
sendreq_handshake_ack(ok) ==
    [ first |-> SecureSend(INITIAL_IV, ok), second |-> INITIAL_IV ]

\* vcblockchain_protocol_response_decode_header: a response shorter than the
\* three header words does not decode
HEADER_WORDS == 3

decode_header_ok(resp) == Len(resp.hdr) >= HEADER_WORDS

header_request_id(resp) == resp.hdr[1]

header_offset(resp) == resp.hdr[2]

header_status(resp) == resp.hdr[3]

(***************************************************************************)
(* State.                                                                  *)
(***************************************************************************)
VARIABLES
    pc,                         \* position in agentd_connection_init / caller
    success,                    \* agentd_connection_init's success flag
    retval,                     \* agentd_connection_init's retval
    acq,                        \* resource -> 1 once it has been initialised
    rel,                        \* resource -> number of dispose / release calls
    nonnull,                    \* the out-parameter pointers not yet set NULL
    server_id,                  \* artifact id of the pinned server certificate
    server_pubkey,              \* encryption key of the pinned certificate
    server_id_from_server,      \* artifact id received in the response
    server_pubkey_from_server,  \* encryption key received in the response
    hs_status,                  \* status word of the handshake response
    shared_secret_size,         \* size of the shared secret buffer
    response,                   \* the acknowledgement response buffer
    client_iv,                  \* the caller's client_iv
    server_iv,                  \* the caller's server_iv
    release_retval,             \* what each certificate release returned
    hlog,                       \* steps of the handshake attempted so far
    hpc,                        \* position inside the running helper
    kind,                       \* the helper that is running / ran last
    sent_offset,                \* offset of the request the helper sent
    resp,                       \* response buffer the helper received
    io,                         \* send / receive attempts of this helper call
    hret,                       \* the value the last helper call returned
    out,                        \* the caller's output parameters
    ncalls,                     \* helper calls started on the session
    nfailed,                    \* helper calls that returned non-zero
    exch,                       \* messages exchanged, and the counters at the call
    env,                        \* "faulty" or "faithful" agent and transport
    payload_size,               \* the sentinel's configured payload size
    spc,                        \* the sentinel's position in its service loop
    sretval,                    \* what read_decode_and_dispatch_request returned
    sin,                        \* messages delivered to the sentinel, unread
    slog,                       \* what the sentinel received and sent so far
    areq,                       \* callers' requests the agent has not relayed
    aresp,                      \* the sentinel's responses not yet relayed
    cpc,                        \* caller -> position in the ping helper
    offset_ctr,                 \* caller -> its offset counter
    csent,                      \* caller -> offset of its outstanding ping
    cin,                        \* caller -> response delivered, unread
    cret,                       \* caller -> what its last ping call returned
    cpings,                     \* caller -> pings it has issued
    ninjected,                  \* messages injected so far
    prog,                       \* the example program that runs
    ppc,                        \* "run", "cleanup" or "exited"
    pstep,                      \* the step of main it is at
    plabel,                     \* the cleanup label control jumped to
    pretval,                    \* main's retval
    pround,                     \* iterations of the program's loop so far
    ptrace,                     \* the calls and checks main made, in order
    preleased,                  \* the resource_release calls of the cleanup
    lfn,                        \* the local function that was called last
    larg,                       \* the arguments it was called with
    lret                        \* what it returned

hsvars ==
    << pc, success, retval, acq, rel, nonnull, server_id, server_pubkey,
       server_id_from_server, server_pubkey_from_server, hs_status,
       shared_secret_size, response, release_retval, hlog >>

ivvars == << client_iv, server_iv >>

helpervars ==
    << hpc, kind, sent_offset, resp, io, hret, out, ncalls, nfailed, exch >>

pingvars ==
    << env, payload_size, spc, sretval, sin, slog, areq, aresp, cpc,
       offset_ctr, csent, cin, cret, cpings, ninjected >>

progvars == << prog, ppc, pstep, plabel, pretval, pround, ptrace, preleased >>

localvars == << lfn, larg, lret >>

vars == << hsvars, ivvars, helpervars, pingvars, progvars, localvars >>

(***************************************************************************)
(* agentd_connection_init.                                                 *)
(***************************************************************************)
Resources ==
    { "cert", "server_cert", "sock", "key_nonce", "challenge_nonce",
      "server_pubkey_from_server", "server_challenge_nonce", "shared_secret",
      "response" }

\* the steps of the function, in program order
StepOrder ==
    << "read_private_key", "read_public_key", "open_socket",
       "get_entity_fields", "send_handshake_request",
       "recv_handshake_response", "verify_server_id", "verify_server_pubkey",
       "send_handshake_ack", "recv_handshake_ack", "decode_ack_header",
       "verify_ack_request_id", "verify_ack_status" >>

StepIndex(step) == CHOOSE i \in 1..Len(StepOrder) : StepOrder[i] = step

\* the cleanup labels, in program order
Labels ==
    << "cleanup_resp", "cleanup_handshake_resp", "cleanup_handshake_req",
       "cleanup_sock", "cleanup_server_cert", "cleanup_cert", "done" >>

LabelIndex(l) == CHOOSE i \in 1..Len(Labels) : Labels[i] = l

LabelSet == { Labels[i] : i \in 1..Len(Labels) }

\* the label each step jumps to when it fails
FailLabel(step) ==
    CASE step = "read_private_key" -> "done"
      [] step = "read_public_key" -> "cleanup_cert"
      [] step = "open_socket" -> "cleanup_server_cert"
      [] step = "get_entity_fields" -> "cleanup_sock"
      [] step = "send_handshake_request" -> "cleanup_sock"
      [] step = "recv_handshake_response" -> "cleanup_handshake_req"
      [] step = "verify_server_id" -> "cleanup_handshake_resp"
      [] step = "verify_server_pubkey" -> "cleanup_handshake_resp"
      [] step = "send_handshake_ack" -> "cleanup_handshake_resp"
      [] step = "recv_handshake_ack" -> "cleanup_handshake_resp"
      [] step = "decode_ack_header" -> "cleanup_resp"
      [] step = "verify_ack_request_id" -> "cleanup_resp"
      [] step = "verify_ack_status" -> "cleanup_resp"

\* the goto after a failed certificate load left out: control falls through
Goto_FallThrough(step, ok) ==
    IF (ok \/ step = "read_public_key") /\ StepIndex(step) < Len(StepOrder)
    THEN StepOrder[StepIndex(step) + 1]
    ELSE IF ok THEN "cleanup_resp" ELSE FailLabel(step)

\* where control goes after a step: the next step when it succeeded (the
\* cleanup chain after the last one), the step's failure label otherwise
Goto(step, ok) ==
    IF ok
    THEN IF StepIndex(step) < Len(StepOrder)
         THEN StepOrder[StepIndex(step) + 1]
         ELSE "cleanup_resp"
    ELSE FailLabel(step)

\* the code a failing step leaves in retval; code is what the callee returned
FailCode(step, code) ==
    CASE step = "read_private_key" -> code
      [] step = "read_public_key" -> code
      [] step = "open_socket" -> ERROR_AGENTD_SOCKET_CONNECT
      [] step = "get_entity_fields" -> code
      [] step = "send_handshake_request" -> ERROR_SEND_HANDSHAKE_REQ
      [] step = "recv_handshake_response" -> ERROR_RECV_HANDSHAKE_RESP
      [] step = "verify_server_id" -> ERROR_SERVER_ID_MISMATCH
      [] step = "verify_server_pubkey" -> ERROR_SERVER_KEY_MISMATCH
      [] step = "send_handshake_ack" -> ERROR_SEND_HANDSHAKE_ACK
      [] step = "recv_handshake_ack" -> ERROR_RECV_HANDSHAKE_ACK
      [] step = "decode_ack_header" -> ERROR_DECODE_HANDSHAKE_ACK
      [] step = "verify_ack_request_id" -> ERROR_HANDSHAKE_ACK_REQUEST_ID
      [] step = "verify_ack_status" -> ERROR_HANDSHAKE_ACK_STATUS

\* the steps that assign the callee's result to retval
CallSteps ==
    { "read_private_key", "read_public_key", "open_socket",
      "get_entity_fields", "send_handshake_request",
      "recv_handshake_response", "send_handshake_ack", "recv_handshake_ack",
      "decode_ack_header" }

\* the resources a step initialises when it succeeds
Acquires(step) ==
    CASE step = "read_private_key" -> {"cert"}
      [] step = "read_public_key" -> {"server_cert"}
      [] step = "open_socket" -> {"sock"}
      [] step = "send_handshake_request" -> {"key_nonce", "challenge_nonce"}
      [] step = "recv_handshake_response" ->
            {"server_pubkey_from_server", "server_challenge_nonce",
             "shared_secret"}
      [] step = "recv_handshake_ack" -> {"response"}
      [] OTHER -> {}

\* the bookkeeping every step shares
Proceed(step, ok, code) ==
    /\ pc = step
    /\ hlog' = Append(hlog, [step |-> step, ok |-> ok])
    /\ acq' = IF ok
              THEN [r \in Resources |->
                        IF r \in Acquires(step) THEN 1 ELSE acq[r]]
              ELSE acq
    /\ pc' = Goto(step, ok)
    /\ retval' = IF ok
                 THEN IF step \in CallSteps THEN STATUS_SUCCESS ELSE retval
                 ELSE FailCode(step, code)
    /\ success' = (ok /\ step = "verify_ack_status")
    /\ UNCHANGED << rel, nonnull, release_retval, helpervars, pingvars, progvars, localvars >>

\* entity_private_certificate_create_from_file: the code of the first of
\* its five steps that fails
LoaderFailures == {"none", "stat", "buffer", "open", "read", "parse"}

entity_private_certificate_create_from_file(fail) ==
    CASE fail = "stat" -> ERROR_PRIVATE_CERT_STAT
      [] fail = "buffer" -> ERROR_PRIVATE_CERT_BUFFER_CREATE
      [] fail = "open" -> ERROR_PRIVATE_CERT_FILE_OPEN
      [] fail = "read" -> ERROR_PRIVATE_CERT_FILE_READ
      [] fail = "parse" -> ERROR_PRIVATE_CERT_FILE_PARSE
      [] OTHER -> STATUS_SUCCESS

entity_public_certificate_create_from_file(fail) ==
    CASE fail = "stat" -> ERROR_PUBLIC_CERT_STAT
      [] fail = "buffer" -> ERROR_PUBLIC_CERT_BUFFER_CREATE
      [] fail = "open" -> ERROR_PUBLIC_CERT_FILE_OPEN
      [] fail = "read" -> ERROR_PUBLIC_CERT_FILE_READ
      [] fail = "parse" -> ERROR_PUBLIC_CERT_FILE_PARSE
      [] OTHER -> STATUS_SUCCESS

\* the id comparison given a length of one byte
ServerIdsMatch_OneByte(pinned, received) ==
    crypto_memcmp(pinned, received, 1) = 0

\* "verify that the server ids match"
ServerIdsMatch(pinned, received) ==
    crypto_memcmp(pinned, received, UUID_SIZE) = 0

\* the key comparison without its size test: the bytes both keys have
ServerPubkeysMatch_NoSizeTest(pinned, received) ==
    LET n == IF Len(received) < Len(pinned) THEN Len(received)
             ELSE Len(pinned)
    IN  crypto_memcmp(pinned, received, n) = 0

\* "verify that the server pubkey matches"
ServerPubkeysMatch(pinned, received) ==
    ~ ( Len(received) # Len(pinned)
        \/ crypto_memcmp(pinned, received, Len(pinned)) # 0 )

\* the counters after the acknowledgement is sent: client_iv and server_iv
\* are handed to the library in this order
AckSendIvs(ok) ==
    [ client_iv |-> sendreq_handshake_ack(ok).first,
      server_iv |-> sendreq_handshake_ack(ok).second ]

\* the acknowledgement response read under client_iv
AckRecvIvs_ClientIv(civ, siv, ok) ==
    [ client_iv |-> SecureRecv(civ, ok), server_iv |-> siv ]

\* the counters after the acknowledgement response is read under server_iv
AckRecvIvs(civ, siv, ok) ==
    [ client_iv |-> civ, server_iv |-> SecureRecv(siv, ok) ]

\* the request id compared with the id of the handshake request
AckRequestIdOk_Initiate(r) ==
    header_request_id(r) = PROTOCOL_REQ_ID.HANDSHAKE_INITIATE

\* "verify that the request id matches"
AckRequestIdOk(r) ==
    header_request_id(r) = PROTOCOL_REQ_ID.HANDSHAKE_ACKNOWLEDGE

\* "verify that the status was successful"
AckStatusOk(r) == header_status(r) = STATUS_SUCCESS

\* the acknowledgement responses the peer may produce
AckResponses ==
    { [hdr |-> h, body |-> << >>] :
        h \in { << >>, << PROTOCOL_REQ_ID.HANDSHAKE_ACKNOWLEDGE, 0 >> }
              \cup { << r, o, s >> :
                        r \in { PROTOCOL_REQ_ID.HANDSHAKE_ACKNOWLEDGE,
                                PROTOCOL_REQ_ID.HANDSHAKE_INITIATE },
                        o \in {0, 1},
                        s \in {STATUS_SUCCESS, 1} } }

ReadPrivateKey ==
    \E fail \in LoaderFailures :
        LET code == entity_private_certificate_create_from_file(fail)
        IN  /\ Proceed("read_private_key", code = STATUS_SUCCESS, code)
            /\ UNCHANGED << server_id, server_pubkey, server_id_from_server,
                            server_pubkey_from_server, hs_status,
                            shared_secret_size, response, ivvars >>

ReadPublicKey ==
    \E fail \in LoaderFailures :
        LET code == entity_public_certificate_create_from_file(fail)
        IN  /\ Proceed("read_public_key", code = STATUS_SUCCESS, code)
            /\ UNCHANGED << server_id, server_pubkey, server_id_from_server,
                            server_pubkey_from_server, hs_status,
                            shared_secret_size, response, ivvars >>

OpenSocket ==
    \E ok \in BOOLEAN :
        /\ Proceed("open_socket", ok, ERROR_AGENTD_SOCKET_CONNECT)
        /\ UNCHANGED << server_id, server_pubkey, server_id_from_server,
                        server_pubkey_from_server, hs_status,
                        shared_secret_size, response, ivvars >>

\* the five getters: client id, client public and private encryption keys,
\* server id, server public encryption key
GetEntityFields ==
    \E code \in {STATUS_SUCCESS} \cup LibraryErrors, id \in UUIDs,
       key \in PubKeys :
        /\ Proceed("get_entity_fields", code = STATUS_SUCCESS, code)
        /\ server_id' = IF code = STATUS_SUCCESS THEN id ELSE server_id
        /\ server_pubkey' = IF code = STATUS_SUCCESS THEN key
                            ELSE server_pubkey
        /\ UNCHANGED << server_id_from_server, server_pubkey_from_server,
                        hs_status, shared_secret_size, response, ivvars >>

SendHandshakeRequest ==
    \E ok \in BOOLEAN :
        /\ Proceed("send_handshake_request", ok, ERROR_SEND_HANDSHAKE_REQ)
        /\ UNCHANGED << server_id, server_pubkey, server_id_from_server,
                        server_pubkey_from_server, hs_status,
                        shared_secret_size, response, ivvars >>

ReceiveHandshakeResponse ==
    \E ok \in BOOLEAN, id \in UUIDs, key \in PubKeys,
       st \in {STATUS_SUCCESS, 1} :
        /\ Proceed("recv_handshake_response", ok, ERROR_RECV_HANDSHAKE_RESP)
        /\ server_id_from_server' = IF ok THEN id ELSE server_id_from_server
        /\ server_pubkey_from_server' =
                IF ok THEN key ELSE server_pubkey_from_server
        /\ hs_status' = IF ok THEN st ELSE hs_status
        /\ shared_secret_size' = IF ok THEN KEY_SIZE ELSE shared_secret_size
        /\ UNCHANGED << server_id, server_pubkey, response, ivvars >>

VerifyServerId ==
    /\ Proceed("verify_server_id",
               ServerIdsMatch(server_id, server_id_from_server),
               ERROR_SERVER_ID_MISMATCH)
    /\ UNCHANGED << server_id, server_pubkey, server_id_from_server,
                    server_pubkey_from_server, hs_status, shared_secret_size,
                    response, ivvars >>

VerifyServerPubkey ==
    /\ Proceed("verify_server_pubkey",
               ServerPubkeysMatch(server_pubkey, server_pubkey_from_server),
               ERROR_SERVER_KEY_MISMATCH)
    /\ UNCHANGED << server_id, server_pubkey, server_id_from_server,
                    server_pubkey_from_server, hs_status, shared_secret_size,
                    response, ivvars >>

SendHandshakeAck ==
    \E ok \in BOOLEAN :
        /\ Proceed("send_handshake_ack", ok, ERROR_SEND_HANDSHAKE_ACK)
        /\ client_iv' = AckSendIvs(ok).client_iv
        /\ server_iv' = AckSendIvs(ok).server_iv
        /\ UNCHANGED << server_id, server_pubkey, server_id_from_server,
                        server_pubkey_from_server, hs_status,
                        shared_secret_size, response >>

ReceiveHandshakeAck ==
    \E ok \in BOOLEAN, r \in AckResponses :
        /\ Proceed("recv_handshake_ack", ok, ERROR_RECV_HANDSHAKE_ACK)
        /\ response' = IF ok THEN r ELSE response
        /\ client_iv' = AckRecvIvs(client_iv, server_iv, ok).client_iv
        /\ server_iv' = AckRecvIvs(client_iv, server_iv, ok).server_iv
        /\ UNCHANGED << server_id, server_pubkey, server_id_from_server,
                        server_pubkey_from_server, hs_status,
                        shared_secret_size >>

DecodeAckHeader ==
    /\ Proceed("decode_ack_header", decode_header_ok(response),
               ERROR_DECODE_HANDSHAKE_ACK)
    /\ UNCHANGED << server_id, server_pubkey, server_id_from_server,
                    server_pubkey_from_server, hs_status, shared_secret_size,
                    response, ivvars >>

VerifyAckRequestId ==
    /\ Proceed("verify_ack_request_id", AckRequestIdOk(response),
               ERROR_HANDSHAKE_ACK_REQUEST_ID)
    /\ UNCHANGED << server_id, server_pubkey, server_id_from_server,
                    server_pubkey_from_server, hs_status, shared_secret_size,
                    response, ivvars >>

VerifyAckStatus ==
    /\ Proceed("verify_ack_status", AckStatusOk(response),
               ERROR_HANDSHAKE_ACK_STATUS)
    /\ UNCHANGED << server_id, server_pubkey, server_id_from_server,
                    server_pubkey_from_server, hs_status, shared_secret_size,
                    response, ivvars >>

\* the chain with the socket's dispose left out
ChainReleases_SockLeaked(l, succ) ==
    LET at == LabelIndex(l)
    IN  (IF at <= LabelIndex("cleanup_resp") THEN {"response"} ELSE {})
        \cup (IF at <= LabelIndex("cleanup_handshake_resp")
              THEN {"server_pubkey_from_server", "server_challenge_nonce"}
                   \cup (IF ~succ THEN {"shared_secret"} ELSE {})
              ELSE {})
        \cup (IF at <= LabelIndex("cleanup_handshake_req")
              THEN {"key_nonce", "challenge_nonce"} ELSE {})
        \cup (IF at <= LabelIndex("cleanup_server_cert")
              THEN {"server_cert"} ELSE {})
        \cup (IF at <= LabelIndex("cleanup_cert") /\ ~succ
              THEN {"cert"} ELSE {})

\* the chain with the shared secret disposed whatever the success flag
ChainReleases_SecretDisposed(l, succ) ==
    LET at == LabelIndex(l)
    IN  (IF at <= LabelIndex("cleanup_resp") THEN {"response"} ELSE {})
        \cup (IF at <= LabelIndex("cleanup_handshake_resp")
              THEN {"server_pubkey_from_server", "server_challenge_nonce",
                    "shared_secret"}
              ELSE {})
        \cup (IF at <= LabelIndex("cleanup_handshake_req")
              THEN {"key_nonce", "challenge_nonce"} ELSE {})
        \cup (IF at <= LabelIndex("cleanup_sock") /\ ~succ
              THEN {"sock"} ELSE {})
        \cup (IF at <= LabelIndex("cleanup_server_cert")
              THEN {"server_cert"} ELSE {})
        \cup (IF at <= LabelIndex("cleanup_cert") /\ ~succ
              THEN {"cert"} ELSE {})

\* the dispose / release calls of the goto chain entered at label l, up to
\* (not including) the block after done:
ChainReleases(l, succ) ==
    LET at == LabelIndex(l)
    IN  (IF at <= LabelIndex("cleanup_resp") THEN {"response"} ELSE {})
        \cup (IF at <= LabelIndex("cleanup_handshake_resp")
              THEN {"server_pubkey_from_server", "server_challenge_nonce"}
                   \cup (IF ~succ THEN {"shared_secret"} ELSE {})
              ELSE {})
        \cup (IF at <= LabelIndex("cleanup_handshake_req")
              THEN {"key_nonce", "challenge_nonce"} ELSE {})
        \cup (IF at <= LabelIndex("cleanup_sock") /\ ~succ
              THEN {"sock"} ELSE {})
        \cup (IF at <= LabelIndex("cleanup_server_cert")
              THEN {"server_cert"} ELSE {})
        \cup (IF at <= LabelIndex("cleanup_cert") /\ ~succ
              THEN {"cert"} ELSE {})

\* the out-parameter pointers the chain sets to NULL
ChainNulled(l, succ) ==
    ChainReleases(l, succ) \cap {"shared_secret", "sock", "cert"}

\* retval when the chain reaches done: a failing release overrides it
ChainRetval(l, succ, rv, rel_server, rel_cert) ==
    LET r1 == IF "server_cert" \in ChainReleases(l, succ)
                 /\ rel_server # STATUS_SUCCESS
              THEN rel_server ELSE rv
    IN  IF "cert" \in ChainReleases(l, succ) /\ rel_cert # STATUS_SUCCESS
        THEN rel_cert ELSE r1

\* the function without the block after done
DoneReleases_Nothing(succ, rv, live) == {}

\* the block after done: "if something went wrong during cleanup, attempt
\* to clean up return values"
DoneReleases(succ, rv, live) ==
    IF succ /\ rv # STATUS_SUCCESS
    THEN live \cap {"shared_secret", "sock", "cert"}
    ELSE {}

DoneRetval(succ, rv, live, rel_cert) ==
    IF "cert" \in DoneReleases(succ, rv, live) /\ rel_cert # STATUS_SUCCESS
    THEN rel_cert ELSE rv

\* the whole cleanup, from the label control jumped to until the return
Cleanup ==
    /\ pc \in LabelSet
    /\ \E rel_server \in {STATUS_SUCCESS} \cup LibraryErrors,
          rel_cert \in {STATUS_SUCCESS} \cup LibraryErrors :
        LET chain == ChainReleases(pc, success)
            rv1 == ChainRetval(pc, success, retval, rel_server, rel_cert)
            live == nonnull \ ChainNulled(pc, success)
            after == DoneReleases(success, rv1, live)
        IN  /\ rel' = [r \in Resources |->
                          rel[r] + (IF r \in chain THEN 1 ELSE 0)
                                 + (IF r \in after THEN 1 ELSE 0)]
            /\ nonnull' = live \ after
            /\ retval' = DoneRetval(success, rv1, live, rel_cert)
            /\ release_retval' =
                  [ server_cert |-> IF "server_cert" \in chain
                                    THEN rel_server ELSE STATUS_SUCCESS,
                    cert |-> IF "cert" \in chain \cup after
                             THEN rel_cert ELSE STATUS_SUCCESS ]
    /\ pc' = "returned"
    /\ UNCHANGED << success, acq, server_id, server_pubkey,
                    server_id_from_server, server_pubkey_from_server,
                    hs_status, shared_secret_size, response, hlog, ivvars,
                    helpervars, pingvars, progvars, localvars >>

\* the caller goes on with the session the function returned
SessionStart ==
    /\ pc = "returned"
    /\ retval = STATUS_SUCCESS
    /\ pc' = "session"
    /\ server_id' = NoValue
    /\ server_pubkey' = NoValue
    /\ server_id_from_server' = NoValue
    /\ server_pubkey_from_server' = NoValue
    /\ hs_status' = STATUS_SUCCESS
    /\ response' = NoValue
    /\ UNCHANGED << success, retval, acq, rel, nonnull, shared_secret_size,
                    release_retval, hlog, ivvars, helpervars, pingvars, progvars, localvars >>

(***************************************************************************)
(* The helpers: one send, one receive, header checks, body decode.         *)
(***************************************************************************)
HelperRow(req, off, c_snd, c_rcv, c_dec, c_id, c_st, c_off, c_body, dec, n) ==
    [ req |-> req, offset |-> off, send |-> c_snd, recv |-> c_rcv,
      decode |-> c_dec, request_id |-> c_id, status |-> c_st,
      offset_code |-> c_off, body |-> c_body, decodes_body |-> dec,
      fields |-> n ]

\* per helper: request id, the offset literal it sends (0x1337 = 4919,
\* 0x1234 = 4660, 0x3133 = 12595, 0x4321 = 17185), the code of each failure
\* cause, whether a body is decoded and how many fields the body holds
HelperTable ==
    [ get_and_verify_last_block_id |->
        HelperRow(PROTOCOL_REQ_ID.LATEST_BLOCK_ID_GET, 4919,
            ERROR_SEND_LATEST_BLOCK_ID_REQ, ERROR_RECV_LATEST_BLOCK_ID_RESP,
            ERROR_DECODE_LATEST_BLOCK_ID, ERROR_LATEST_BLOCK_ID_REQUEST_ID,
            ERROR_LATEST_BLOCK_ID_STATUS, ERROR_LATEST_BLOCK_ID_OFFSET,
            ERROR_DECODE_LATEST_BLOCK_ID_DATA, TRUE, 1),
      get_and_verify_block_id_by_height |->
        HelperRow(PROTOCOL_REQ_ID.BLOCK_ID_BY_HEIGHT_GET, 4919,
            ERROR_SEND_BLOCK_ID_BY_HEIGHT_REQ,
            ERROR_RECV_BLOCK_ID_BY_HEIGHT_RESP,
            ERROR_DECODE_BLOCK_ID_BY_HEIGHT,
            ERROR_BLOCK_ID_BY_HEIGHT_REQUEST_ID,
            ERROR_BLOCK_ID_BY_HEIGHT_STATUS, ERROR_BLOCK_ID_BY_HEIGHT_OFFSET,
            ERROR_DECODE_BLOCK_ID_BY_HEIGHT_DATA, TRUE, 1),
      get_and_verify_block |->
        HelperRow(PROTOCOL_REQ_ID.BLOCK_BY_ID_GET, 4660,
            215, 216, 217, 218, 219, 220, 221, TRUE, 3),
      get_and_verify_next_block_id |->
        HelperRow(PROTOCOL_REQ_ID.BLOCK_ID_GET_NEXT, 12595,
            ERROR_SEND_NEXT_BLOCK_ID_REQ, ERROR_RECV_NEXT_BLOCK_ID_RESP,
            ERROR_DECODE_NEXT_BLOCK_ID, ERROR_NEXT_BLOCK_ID_REQUEST_ID,
            ERROR_NEXT_BLOCK_ID_STATUS, ERROR_NEXT_BLOCK_ID_OFFSET,
            ERROR_DECODE_NEXT_BLOCK_ID_DATA, TRUE, 1),
      get_and_verify_prev_block_id |->
        HelperRow(PROTOCOL_REQ_ID.BLOCK_ID_GET_PREV, 12595,
            ERROR_SEND_PREV_BLOCK_ID_REQ, ERROR_RECV_PREV_BLOCK_ID_RESP,
            ERROR_DECODE_PREV_BLOCK_ID, ERROR_PREV_BLOCK_ID_REQUEST_ID,
            ERROR_PREV_BLOCK_ID_STATUS, ERROR_PREV_BLOCK_ID_OFFSET,
            ERROR_DECODE_PREV_BLOCK_ID_DATA, TRUE, 1),
      get_and_verify_txn |->
        HelperRow(PROTOCOL_REQ_ID.TRANSACTION_BY_ID_GET, 4660,
            ERROR_SEND_TXN_REQ, ERROR_RECV_TXN_RESP, ERROR_DECODE_TXN_RESP,
            ERROR_GET_TXN_REQUEST_ID, ERROR_GET_TXN_STATUS,
            ERROR_GET_TXN_OFFSET, ERROR_DECODE_TXN_RESP_DATA, TRUE, 5),
      get_and_verify_next_txn_id |->
        HelperRow(PROTOCOL_REQ_ID.TRANSACTION_ID_GET_NEXT, 12595,
            ERROR_SEND_NEXT_TXN_ID_REQ, ERROR_RECV_NEXT_TXN_ID_RESP,
            ERROR_DECODE_NEXT_TXN_ID, ERROR_NEXT_TXN_ID_REQUEST_ID,
            ERROR_NEXT_TXN_ID_STATUS, ERROR_NEXT_TXN_ID_OFFSET,
            ERROR_DECODE_NEXT_TXN_ID_DATA, TRUE, 1),
      get_and_verify_prev_txn_id |->
        HelperRow(PROTOCOL_REQ_ID.TRANSACTION_ID_GET_PREV, 12595,
            ERROR_SEND_PREV_TXN_ID_REQ, ERROR_RECV_PREV_TXN_ID_RESP,
            ERROR_DECODE_PREV_TXN_ID, ERROR_PREV_TXN_ID_REQUEST_ID,
            ERROR_PREV_TXN_ID_STATUS, ERROR_PREV_TXN_ID_OFFSET,
            ERROR_DECODE_PREV_TXN_ID_DATA, TRUE, 1),
      get_and_verify_txn_block_id |->
        HelperRow(PROTOCOL_REQ_ID.TRANSACTION_ID_GET_BLOCK_ID, 12595,
            ERROR_SEND_TXN_BLOCK_ID_REQ, ERROR_RECV_TXN_BLOCK_ID_RESP,
            ERROR_DECODE_TXN_BLOCK_ID, ERROR_TXN_BLOCK_ID_REQUEST_ID,
            ERROR_TXN_BLOCK_ID_STATUS, ERROR_TXN_BLOCK_ID_OFFSET,
            ERROR_DECODE_TXN_BLOCK_ID_DATA, TRUE, 1),
      get_and_verify_artifact_first_txn_id |->
        HelperRow(PROTOCOL_REQ_ID.ARTIFACT_FIRST_TXN_BY_ID_GET, 17185,
            ERROR_SEND_FIRST_TXN_ID_REQ, ERROR_RECV_FIRST_TXN_ID_RESP,
            ERROR_DECODE_FIRST_TXN_ID, ERROR_FIRST_TXN_ID_REQUEST_ID,
            ERROR_FIRST_TXN_ID_STATUS, ERROR_FIRST_TXN_ID_OFFSET,
            ERROR_DECODE_FIRST_TXN_ID_DATA, TRUE, 1),
      get_and_verify_artifact_last_txn_id |->
        HelperRow(PROTOCOL_REQ_ID.ARTIFACT_LAST_TXN_BY_ID_GET, 17185,
            ERROR_SEND_LAST_TXN_ID_REQ, ERROR_RECV_LAST_TXN_ID_RESP,
            ERROR_DECODE_LAST_TXN_ID, ERROR_LAST_TXN_ID_REQUEST_ID,
            ERROR_LAST_TXN_ID_STATUS, ERROR_LAST_TXN_ID_OFFSET,
            ERROR_DECODE_LAST_TXN_ID_DATA, TRUE, 1),
      get_and_verify_status |->
        HelperRow(PROTOCOL_REQ_ID.STATUS_GET, 12595,
            ERROR_SEND_STATUS_REQ, ERROR_RECV_STATUS_RESP,
            ERROR_DECODE_STATUS, ERROR_STATUS_REQUEST_ID,
            ERROR_STATUS_STATUS, ERROR_STATUS_OFFSET,
            ERROR_DECODE_STATUS_DATA, TRUE, 0),
      send_and_verify_close_connection |->
        HelperRow(PROTOCOL_REQ_ID.CLOSE, 12595,
            ERROR_SEND_CLOSE_REQ, ERROR_RECV_CLOSE_RESP,
            ERROR_DECODE_CLOSE, ERROR_CLOSE_REQUEST_ID,
            ERROR_CLOSE_STATUS, ERROR_CLOSE_OFFSET,
            ERROR_DECODE_CLOSE_DATA, TRUE, 0),
      send_and_verify_enable_extended_api |->
        HelperRow(PROTOCOL_REQ_ID.EXTENDED_API_ENABLE, 0,
            ERROR_EXTENDED_API_ENABLE_REQ,
            ERROR_RECV_EXTENDED_API_ENABLE_RESP,
            ERROR_DECODE_EXTENDED_API_ENABLE_HEADER,
            ERROR_EXTENDED_API_ENABLE_REQUEST_ID,
            ERROR_EXTENDED_API_ENABLE_STATUS,
            ERROR_EXTENDED_API_ENABLE_OFFSET,
            ERROR_DECODE_EXTENDED_API_ENABLE, TRUE, 0),
      submit_and_verify_txn |->
        HelperRow(PROTOCOL_REQ_ID.TRANSACTION_SUBMIT, 4919,
            201, 202, 203, 204, 205, 207, 0, FALSE, 0) ]

Helpers == DOMAIN HelperTable

\* the helpers that follow the whole recipe, body decode included
StandardHelpers == Helpers \ {"submit_and_verify_txn"}

\* the helpers whose offset is a parameter, and the offsets callers pass
OffsetIsParameter == {"send_and_verify_enable_extended_api"}

CallerOffsets == {5, 6}

\* the offset a helper puts in its request and expects back
RequestOffset(k, arg) ==
    IF k \in OffsetIsParameter THEN arg ELSE HelperTable[k].offset

\* vcblockchain_protocol_decode_resp_*: the body decodes when it holds the
\* fields of the kind
decode_body_ok(k, r) == Len(r.body) = HelperTable[k].fields

\* the recipe with the offset mismatch reported by the status code
HelperVerify_OffsetAsStatus(k, off, r) ==
    LET row == HelperTable[k]
    IN  IF ~decode_header_ok(r) THEN row.decode
        ELSE IF row.req # header_request_id(r) THEN row.request_id
        ELSE IF STATUS_SUCCESS # header_status(r) THEN row.status
        ELSE IF off # header_offset(r) THEN row.status
        ELSE IF row.decodes_body /\ ~decode_body_ok(k, r) THEN row.body
        ELSE STATUS_SUCCESS

\* the recipe with the offset compared before the request id
HelperVerify_OffsetFirst(k, off, r) ==
    LET row == HelperTable[k]
    IN  IF ~decode_header_ok(r) THEN row.decode
        ELSE IF off # header_offset(r) THEN row.offset_code
        ELSE IF row.req # header_request_id(r) THEN row.request_id
        ELSE IF STATUS_SUCCESS # header_status(r) THEN row.status
        ELSE IF row.decodes_body /\ ~decode_body_ok(k, r) THEN row.body
        ELSE STATUS_SUCCESS

\* the recipe with the offset comparison left out
HelperVerify_NoOffsetCheck(k, off, r) ==
    LET row == HelperTable[k]
    IN  IF ~decode_header_ok(r) THEN row.decode
        ELSE IF row.req # header_request_id(r) THEN row.request_id
        ELSE IF STATUS_SUCCESS # header_status(r) THEN row.status
        ELSE IF row.decodes_body /\ ~decode_body_ok(k, r) THEN row.body
        ELSE STATUS_SUCCESS

\* the recipe with the body decoded by every helper
HelperVerify_AlwaysDecodesBody(k, off, r) ==
    LET row == HelperTable[k]
    IN  IF ~decode_header_ok(r) THEN row.decode
        ELSE IF row.req # header_request_id(r) THEN row.request_id
        ELSE IF STATUS_SUCCESS # header_status(r) THEN row.status
        ELSE IF off # header_offset(r) THEN row.offset_code
        ELSE IF ~decode_body_ok(k, r) THEN row.decode
        ELSE STATUS_SUCCESS

\* the header checks and the body decode of a helper, in program order:
\* the code it returns for the response r to a request sent with offset off
HelperVerify(k, off, r) ==
    LET row == HelperTable[k]
    IN  IF ~decode_header_ok(r) THEN row.decode
        ELSE IF row.req # header_request_id(r) THEN row.request_id
        ELSE IF STATUS_SUCCESS # header_status(r) THEN row.status
        ELSE IF off # header_offset(r) THEN row.offset_code
        ELSE IF row.decodes_body /\ ~decode_body_ok(k, r) THEN row.body
        ELSE STATUS_SUCCESS

\* what the success path copies or moves to the caller's output parameters
HelperOutput(k, r) == r.body

\* the send advancing client_iv although nothing went out
HelperSendIvs_Always(civ, siv, ok) ==
    [ client_iv |-> civ + 1, server_iv |-> siv ]

\* the counters after the helper's send: client_iv goes to the library
HelperSendIvs(civ, siv, ok) ==
    [ client_iv |-> SecureSend(civ, ok), server_iv |-> siv ]

\* the receive handed client_iv instead of server_iv
HelperRecvIvs_ClientIv(civ, siv, ok) ==
    [ client_iv |-> SecureRecv(civ, ok), server_iv |-> siv ]

\* the counters after the helper's receive: server_iv goes to the library
HelperRecvIvs(civ, siv, ok) ==
    [ client_iv |-> civ, server_iv |-> SecureRecv(siv, ok) ]

\* the step after the send: the receive when the send succeeded
AfterSend(ok) == IF ok THEN "await" ELSE "returned"

\* a failed receive tried again instead of returned
AfterRecv_Retry(ok) == IF ok THEN "verify" ELSE "await"

\* the step after the receive: the checks when the receive succeeded
AfterRecv(ok) == IF ok THEN "verify" ELSE "returned"

\* the responses the peer may produce to a request of kind k, offset off
Bodies(k) ==
    { [i \in 1..n |-> i] :
        n \in { m \in 0..(HelperTable[k].fields + 1) :
                    m >= HelperTable[k].fields - 1 } }

Responses(k, off) ==
    { [hdr |-> h, body |-> b] :
        h \in { << >>, << HelperTable[k].req, off >> }
              \cup { << r, o, s >> :
                        r \in { HelperTable[k].req, off,
                                PROTOCOL_REQ_ID.HANDSHAKE_INITIATE },
                        o \in { off, off + 1, HelperTable[k].req },
                        s \in { STATUS_SUCCESS, 1 } },
        b \in Bodies(k) }

\* the caller's output parameters before any helper wrote them: a value no
\* response body has
Unset == << -1 >>

\* history: the requests that went out and the responses that came in on
\* the session since the handshake, and the counters the current helper
\* call started with
NoExchange ==
    [ sent |-> 0, received |-> 0, client_iv |-> 0, server_iv |-> 0,
      out |-> Unset, released |-> << >> ]

\* the certificate of the response is moved into the caller's buffer by the
\* two helpers that return one
CertHelpers == {"get_and_verify_block", "get_and_verify_txn"}

\* the helper writing the caller's output parameters whatever it returns
HelperWrites_Always(code, old, new) == new

\* the caller's output parameters when the helper returns code: the
\* decoded values on the success path, untouched on every other
HelperWrites(code, old, new) == IF code = STATUS_SUCCESS THEN new ELSE old

\* what a helper that received a response moves and disposes on its way
\* out: the decoded structure exists only when the body decode succeeded
HelperReleases(k, code) ==
    (IF code = STATUS_SUCCESS /\ k \in CertHelpers
     THEN << "move" >> ELSE << >>)
    \o (IF code = STATUS_SUCCESS /\ HelperTable[k].decodes_body
        THEN << "decoded" >> ELSE << >>)
    \o << "response" >>

HelperSend ==
    /\ pc = "session"
    /\ hpc \in {"idle", "returned"}
    /\ ncalls < MaxCalls
    /\ \E k \in Helpers, arg \in CallerOffsets, ok \in BOOLEAN :
        /\ kind' = k
        /\ sent_offset' = RequestOffset(k, arg)
        /\ io' = << [op |-> "send", ok |-> ok] >>
        /\ client_iv' = HelperSendIvs(client_iv, server_iv, ok).client_iv
        /\ server_iv' = HelperSendIvs(client_iv, server_iv, ok).server_iv
        /\ hpc' = AfterSend(ok)
        /\ hret' = IF ok THEN STATUS_SUCCESS ELSE HelperTable[k].send
        /\ nfailed' = IF ok THEN nfailed ELSE nfailed + 1
        /\ exch' = [ sent |-> exch.sent + (IF ok THEN 1 ELSE 0),
                     received |-> exch.received,
                     client_iv |-> client_iv, server_iv |-> server_iv,
                     out |-> out, released |-> << >> ]
    /\ ncalls' = ncalls + 1
    /\ resp' = NoValue
    /\ UNCHANGED << hsvars, pingvars, progvars, localvars, out >>

HelperReceive ==
    /\ hpc = "await"
    /\ \E ok \in BOOLEAN, r \in Responses(kind, sent_offset) :
        /\ io' = Append(io, [op |-> "recv", ok |-> ok])
        /\ client_iv' = HelperRecvIvs(client_iv, server_iv, ok).client_iv
        /\ server_iv' = HelperRecvIvs(client_iv, server_iv, ok).server_iv
        /\ hpc' = AfterRecv(ok)
        /\ resp' = IF ok THEN r ELSE resp
        /\ hret' = IF ok THEN STATUS_SUCCESS ELSE HelperTable[kind].recv
        /\ nfailed' = IF ok THEN nfailed ELSE nfailed + 1
        /\ exch' = [exch EXCEPT
                        !.received = exch.received + (IF ok THEN 1 ELSE 0)]
    /\ UNCHANGED << hsvars, pingvars, progvars, localvars, kind, sent_offset, out, ncalls >>

HelperVerifyResponse ==
    /\ hpc = "verify"
    /\ hret' = HelperVerify(kind, sent_offset, resp)
    /\ out' = HelperWrites(hret', out, HelperOutput(kind, resp))
    /\ exch' = [exch EXCEPT !.released = HelperReleases(kind, hret')]
    /\ nfailed' = IF hret' = STATUS_SUCCESS THEN nfailed ELSE nfailed + 1
    /\ hpc' = "returned"
    /\ UNCHANGED << hsvars, ivvars, pingvars, progvars, localvars, kind,
                    sent_offset, resp, io, ncalls >>

(***************************************************************************)
(* The extended API: callers ping, the agent relays, the sentinel answers. *)
(***************************************************************************)
\* the programs that ping the sentinel through the agent
Callers == {1, 2}

\* HELPERS_PING_PROTOCOL_VERB_PING, and a verb the sentinel does not serve
VERB_PING == "PING"

Verbs == {VERB_PING, "OTHER"}

\* codes the sources name but no header under src/ defines: distinct
\* non-zero values stand for them
UNLISTED_CODE ==
    [ ERROR_PING_REQUEST_SEND |-> 301,
      ERROR_PING_RESPONSE_RECEIVE |-> 302,
      ERROR_PING_RESPONSE_DECODE_HEADER |-> 303,
      ERROR_PING_RESPONSE_ID |-> 304,
      ERROR_PING_RESPONSE_STATUS_CODE |-> 305,
      ERROR_PING_RESPONSE_OFFSET |-> 306,
      ERROR_PING_RESPONSE_DECODE |-> 307,
      ERROR_READ_EXTENDED_API_RESPONSE |-> 311,
      ERROR_READ_EXTENDED_API_RESPONSE_DECODE_HEADER |-> 312,
      ERROR_READ_EXTENDED_API_BAD_REQUEST_ID |-> 313,
      ERROR_READ_EXTENDED_API_DECODE_RESPONSE |-> 314,
      ERROR_READ_EXTENDED_API_INVALID_VERB |-> 315,
      ERROR_READ_EXTENDED_API_OUT_OF_MEMORY |-> 316,
      ERROR_WRITE_EXTENDED_API_RESPONSE |-> 317 ]

\* whether a call to the transport or the allocator may fail
Outcomes == IF env = "faithful" THEN {TRUE} ELSE BOOLEAN

\* the 64-bit correlation token the agent gives the request of caller c
\* with offset k, and its two parts
Token(c, k) == c * 100 + k

TokenCaller(t) == t \div 100

TokenOffset(t) == t % 100

\* EXTENDED_API_CLIENTREQ: client_id, verb_id, offset, payload
ClientRequest(c, verb, k) ==
    [ hdr |-> << PROTOCOL_REQ_ID.EXTENDED_API_CLIENTREQ, 0, STATUS_SUCCESS >>,
      body |-> << c, verb, Token(c, k), 1 >> ]

\* vcblockchain_protocol_decode_resp_extended_api_client_request
decode_client_request_ok(m) == Len(m.body) = 4

\* the agent's acknowledgement of an EXTENDED_API_SENDRESP
SendRespAck ==
    [ hdr |-> << PROTOCOL_REQ_ID.EXTENDED_API_SENDRESP, 0, STATUS_SUCCESS >>,
      body |-> << >> ]

\* the response the agent hands the caller for the sentinel's response r
CallerResponse(r) ==
    [ hdr |-> << PROTOCOL_REQ_ID.EXTENDED_API_SENDRECV, TokenOffset(r.offset),
                 r.status >>,
      body |-> [i \in 1..r.size |-> 0] ]

\* vcblockchain_protocol_decode_resp_extended_api: the body is the payload,
\* of any length
decode_resp_extended_api_ok(r) == decode_header_ok(r)

\* messages that reach the sentinel without a caller's ping behind them
InjectedMessages ==
    { [hdr |-> << >>, body |-> << >>],
      SendRespAck,
      [hdr |-> << PROTOCOL_REQ_ID.EXTENDED_API_CLIENTREQ, 0, STATUS_SUCCESS >>,
       body |-> << 9, VERB_PING >>],
      ClientRequest(9, "OTHER", 7) }

\* the three header checks of send_and_verify_ping_request stopping at the
\* first that fails
PingHeaderChecks_FirstWins(offset, r) ==
    IF PROTOCOL_REQ_ID.EXTENDED_API_SENDRECV # header_request_id(r)
    THEN UNLISTED_CODE.ERROR_PING_RESPONSE_ID
    ELSE IF STATUS_SUCCESS # header_status(r)
    THEN UNLISTED_CODE.ERROR_PING_RESPONSE_STATUS_CODE
    ELSE IF offset # header_offset(r)
    THEN UNLISTED_CODE.ERROR_PING_RESPONSE_OFFSET
    ELSE STATUS_SUCCESS

\* the three header checks of send_and_verify_ping_request: each overwrites
\* retval and none leaves; retval is STATUS_SUCCESS when the first is reached
PingHeaderChecks(offset, r) ==
    LET r1 == IF PROTOCOL_REQ_ID.EXTENDED_API_SENDRECV # header_request_id(r)
              THEN UNLISTED_CODE.ERROR_PING_RESPONSE_ID
              ELSE STATUS_SUCCESS
        r2 == IF STATUS_SUCCESS # header_status(r)
              THEN UNLISTED_CODE.ERROR_PING_RESPONSE_STATUS_CODE
              ELSE r1
        r3 == IF offset # header_offset(r)
              THEN UNLISTED_CODE.ERROR_PING_RESPONSE_OFFSET
              ELSE r2
    IN  r3

\* the library calls send_and_verify_ping_request makes on the response r
\* it received
PingDecodes(offset, r) ==
    << "decode_header" >>
    \o (IF decode_header_ok(r)
            /\ PingHeaderChecks(offset, r) = STATUS_SUCCESS
        THEN << "decode_resp_extended_api" >> ELSE << >>)

\* send_and_verify_ping_request after the receive: the header is decoded,
\* the three header checks run, then the body is decoded
PingVerify(offset, r) ==
    IF ~decode_header_ok(r)
    THEN UNLISTED_CODE.ERROR_PING_RESPONSE_DECODE_HEADER
    ELSE IF STATUS_SUCCESS # PingHeaderChecks(offset, r)
    THEN PingHeaderChecks(offset, r)
    ELSE IF ~decode_resp_extended_api_ok(r)
    THEN UNLISTED_CODE.ERROR_PING_RESPONSE_DECODE
    ELSE STATUS_SUCCESS

\* the dispatch answering an unknown verb with status 0
SentinelDispatch_VerbIgnored(m, size, alloc_ok, send_ok) ==
    IF ~decode_header_ok(m)
    THEN [ retval |->
             UNLISTED_CODE.ERROR_READ_EXTENDED_API_RESPONSE_DECODE_HEADER,
           sent |-> << >> ]
    ELSE IF PROTOCOL_REQ_ID.EXTENDED_API_CLIENTREQ # header_request_id(m)
    THEN [ retval |-> UNLISTED_CODE.ERROR_READ_EXTENDED_API_BAD_REQUEST_ID,
           sent |-> << >> ]
    ELSE IF ~decode_client_request_ok(m)
    THEN [ retval |-> UNLISTED_CODE.ERROR_READ_EXTENDED_API_DECODE_RESPONSE,
           sent |-> << >> ]
    ELSE IF ~alloc_ok
    THEN [ retval |-> UNLISTED_CODE.ERROR_READ_EXTENDED_API_OUT_OF_MEMORY,
           sent |-> << >> ]
    ELSE LET fail_response == m.body[2] # VERB_PING
             r == [ offset |-> m.body[3],
                    status |-> IF fail_response THEN STATUS_SUCCESS
                               ELSE STATUS_SUCCESS,
                    size |-> size ]
         IN  [ retval |-> IF send_ok THEN STATUS_SUCCESS
                          ELSE UNLISTED_CODE.ERROR_WRITE_EXTENDED_API_RESPONSE,
               sent |-> << [ev |-> "send", ok |-> send_ok, resp |-> r] >> ]

\* the dispatch answering with the offset of the header, not of the body
SentinelDispatch_HeaderOffset(m, size, alloc_ok, send_ok) ==
    IF ~decode_header_ok(m)
    THEN [ retval |->
             UNLISTED_CODE.ERROR_READ_EXTENDED_API_RESPONSE_DECODE_HEADER,
           sent |-> << >> ]
    ELSE IF PROTOCOL_REQ_ID.EXTENDED_API_CLIENTREQ # header_request_id(m)
    THEN [ retval |-> UNLISTED_CODE.ERROR_READ_EXTENDED_API_BAD_REQUEST_ID,
           sent |-> << >> ]
    ELSE IF ~decode_client_request_ok(m)
    THEN [ retval |-> UNLISTED_CODE.ERROR_READ_EXTENDED_API_DECODE_RESPONSE,
           sent |-> << >> ]
    ELSE IF ~alloc_ok
    THEN [ retval |-> UNLISTED_CODE.ERROR_READ_EXTENDED_API_OUT_OF_MEMORY,
           sent |-> << >> ]
    ELSE LET fail_response == m.body[2] # VERB_PING
             r == [ offset |-> header_offset(m),
                    status |-> IF fail_response
                               THEN UNLISTED_CODE
                                        .ERROR_READ_EXTENDED_API_INVALID_VERB
                               ELSE STATUS_SUCCESS,
                    size |-> size ]
         IN  [ retval |-> IF send_ok THEN STATUS_SUCCESS
                          ELSE UNLISTED_CODE.ERROR_WRITE_EXTENDED_API_RESPONSE,
               sent |-> << [ev |-> "send", ok |-> send_ok, resp |-> r] >> ]

\* read_decode_and_dispatch_request from the message m it read up to its
\* second receive: the code it leaves with (STATUS_SUCCESS: it goes on to
\* read the acknowledgement) and the response it sent, if it sent one
SentinelDispatch(m, size, alloc_ok, send_ok) ==
    IF ~decode_header_ok(m)
    THEN [ retval |->
             UNLISTED_CODE.ERROR_READ_EXTENDED_API_RESPONSE_DECODE_HEADER,
           sent |-> << >> ]
    ELSE IF PROTOCOL_REQ_ID.EXTENDED_API_CLIENTREQ # header_request_id(m)
    THEN [ retval |-> UNLISTED_CODE.ERROR_READ_EXTENDED_API_BAD_REQUEST_ID,
           sent |-> << >> ]
    ELSE IF ~decode_client_request_ok(m)
    THEN [ retval |-> UNLISTED_CODE.ERROR_READ_EXTENDED_API_DECODE_RESPONSE,
           sent |-> << >> ]
    ELSE IF ~alloc_ok
    THEN [ retval |-> UNLISTED_CODE.ERROR_READ_EXTENDED_API_OUT_OF_MEMORY,
           sent |-> << >> ]
    ELSE LET fail_response == m.body[2] # VERB_PING
             r == [ offset |-> m.body[3],
                    status |-> IF fail_response
                               THEN UNLISTED_CODE
                                        .ERROR_READ_EXTENDED_API_INVALID_VERB
                               ELSE STATUS_SUCCESS,
                    size |-> size ]
         IN  [ retval |-> IF send_ok THEN STATUS_SUCCESS
                          ELSE UNLISTED_CODE.ERROR_WRITE_EXTENDED_API_RESPONSE,
               sent |-> << [ev |-> "send", ok |-> send_ok, resp |-> r] >> ]

\* read_decode_and_dispatch_request after its second receive
SentinelCheckAck(m) ==
    IF ~decode_header_ok(m)
    THEN UNLISTED_CODE.ERROR_READ_EXTENDED_API_RESPONSE_DECODE_HEADER
    ELSE IF PROTOCOL_REQ_ID.EXTENDED_API_SENDRESP # header_request_id(m)
    THEN UNLISTED_CODE.ERROR_READ_EXTENDED_API_BAD_REQUEST_ID
    ELSE STATUS_SUCCESS

\* a caller starts send_and_verify_ping_request(offset_ctr++): payload
\* buffer, then the send
PingSend(c) ==
    /\ cpc[c] \in {"idle", "returned"}
    /\ cpc[c] = "returned" => cret[c] = STATUS_SUCCESS
    /\ cpings[c] < MaxPings
    /\ \E alloc_ok \in Outcomes, send_ok \in Outcomes, e \in LibraryErrors :
        /\ cret' = [cret EXCEPT ![c] =
                        IF ~alloc_ok THEN e
                        ELSE IF ~send_ok
                             THEN UNLISTED_CODE.ERROR_PING_REQUEST_SEND
                             ELSE STATUS_SUCCESS]
        /\ cpc' = [cpc EXCEPT ![c] =
                        IF alloc_ok /\ send_ok THEN "await" ELSE "returned"]
        /\ areq' = IF alloc_ok /\ send_ok
                   THEN Append(areq, [from |-> c, offset |-> offset_ctr[c],
                                      verb |-> VERB_PING])
                   ELSE areq
    /\ csent' = [csent EXCEPT ![c] = offset_ctr[c]]
    /\ offset_ctr' = [offset_ctr EXCEPT ![c] = offset_ctr[c] + 1]
    /\ cpings' = [cpings EXCEPT ![c] = cpings[c] + 1]
    /\ UNCHANGED << hsvars, ivvars, helpervars, progvars, localvars, env, payload_size, spc,
                    sretval, sin, slog, aresp, cin, ninjected >>

\* the caller's receive and everything the helper does after it
PingReceive(c) ==
    /\ cpc[c] = "await"
    /\ \/ /\ FALSE \in Outcomes
          /\ cret' = [cret EXCEPT ![c] =
                          UNLISTED_CODE.ERROR_PING_RESPONSE_RECEIVE]
          /\ cin' = cin
       \/ /\ cin[c] # NoValue
          /\ cret' = [cret EXCEPT ![c] = PingVerify(csent[c], cin[c])]
          /\ cin' = [cin EXCEPT ![c] = NoValue]
    /\ cpc' = [cpc EXCEPT ![c] = "returned"]
    /\ UNCHANGED << hsvars, ivvars, helpervars, progvars, localvars, env, payload_size, spc,
                    sretval, sin, slog, areq, aresp, offset_ctr, csent,
                    cpings, ninjected >>

\* the agent turns a caller's EXTENDED_API_SENDRECV into a CLIENTREQ
AgentRelayRequest ==
    /\ areq # << >>
    /\ sin' = Append(sin, ClientRequest(Head(areq).from, Head(areq).verb,
                                        Head(areq).offset))
    /\ areq' = Tail(areq)
    /\ UNCHANGED << hsvars, ivvars, helpervars, progvars, localvars, env, payload_size, spc,
                    sretval, slog, aresp, cpc, offset_ctr, csent, cin, cret,
                    cpings, ninjected >>

\* the agent acknowledges a SENDRESP to the sentinel and hands the response
\* to the caller the token names
AgentRelayResponse ==
    /\ aresp # << >>
    /\ sin' = Append(sin, SendRespAck)
    /\ cin' = IF TokenCaller(Head(aresp).offset) \in Callers
              THEN [cin EXCEPT ![TokenCaller(Head(aresp).offset)] =
                        CallerResponse(Head(aresp))]
              ELSE cin
    /\ aresp' = Tail(aresp)
    /\ UNCHANGED << hsvars, ivvars, helpervars, progvars, localvars, env, payload_size, spc,
                    sretval, slog, areq, cpc, offset_ctr, csent, cret,
                    cpings, ninjected >>

AgentInjects ==
    /\ env = "faulty"
    /\ ninjected < MaxInjected
    /\ \E m \in InjectedMessages : sin' = Append(sin, m)
    /\ ninjected' = ninjected + 1
    /\ UNCHANGED << hsvars, ivvars, helpervars, progvars, localvars, env, payload_size, spc,
                    sretval, slog, areq, aresp, cpc, offset_ctr, csent, cin,
                    cret, cpings >>

\* read_decode_and_dispatch_request, from its first receive to its second
SentinelReadRequest ==
    /\ spc = "read_request"
    /\ \/ /\ FALSE \in Outcomes
          /\ sretval' = UNLISTED_CODE.ERROR_READ_EXTENDED_API_RESPONSE
          /\ spc' = "returned"
          /\ UNCHANGED << sin, slog, aresp >>
       \/ /\ sin # << >>
          /\ \E alloc_ok \in Outcomes, send_ok \in Outcomes :
                LET d == SentinelDispatch(Head(sin), payload_size, alloc_ok,
                                          send_ok)
                IN  /\ sretval' = d.retval
                    /\ spc' = IF d.retval = STATUS_SUCCESS
                              THEN "read_send_response" ELSE "returned"
                    /\ slog' = slog \o << [ev |-> "recv", msg |-> Head(sin)] >>
                                    \o d.sent
                    /\ aresp' = IF d.sent # << >> /\ d.sent[1].ok
                                THEN Append(aresp, d.sent[1].resp)
                                ELSE aresp
          /\ sin' = Tail(sin)
    /\ UNCHANGED << hsvars, ivvars, helpervars, progvars, localvars, env, payload_size, areq, cpc,
                    offset_ctr, csent, cin, cret, cpings, ninjected >>

\* read_decode_and_dispatch_request, from its second receive to its return;
\* on STATUS_SUCCESS main calls it again
SentinelReadSendResponse ==
    /\ spc = "read_send_response"
    /\ \/ /\ FALSE \in Outcomes
          /\ sretval' = UNLISTED_CODE.ERROR_READ_EXTENDED_API_RESPONSE
          /\ UNCHANGED << sin, slog >>
       \/ /\ sin # << >>
          /\ sretval' = SentinelCheckAck(Head(sin))
          /\ slog' = Append(slog, [ev |-> "ack", msg |-> Head(sin)])
          /\ sin' = Tail(sin)
    /\ spc' = IF sretval' = STATUS_SUCCESS THEN "read_request" ELSE "returned"
    /\ UNCHANGED << hsvars, ivvars, helpervars, progvars, localvars, env, payload_size, aresp,
                    areq, cpc, offset_ctr, csent, cin, cret, cpings,
                    ninjected >>

\* the extended API variables while no sentinel runs
PingIdle ==
    /\ env = "faulty"
    /\ payload_size = 1
    /\ spc = "off"
    /\ sretval = STATUS_SUCCESS
    /\ sin = << >>
    /\ slog = << >>
    /\ areq = << >>
    /\ aresp = << >>
    /\ cpc = [c \in Callers |-> "off"]
    /\ offset_ctr = [c \in Callers |-> 5]
    /\ csent = [c \in Callers |-> 0]
    /\ cin = [c \in Callers |-> NoValue]
    /\ cret = [c \in Callers |-> STATUS_SUCCESS]
    /\ cpings = [c \in Callers |-> 0]
    /\ ninjected = 0

(***************************************************************************)
(* The example programs: main() of each, one call or check after another.  *)
(***************************************************************************)
\* a call whose result main passes on, and the label it jumps to on failure
Call(fn, k, label) ==
    [ fn |-> fn, kind |-> k, own |-> FALSE, code |-> STATUS_SUCCESS,
      label |-> label, loop |-> "once" ]

\* a call or a comparison after whose failure main sets a code of its own
CallSets(fn, k, code, label) ==
    [ fn |-> fn, kind |-> k, own |-> TRUE, code |-> code, label |-> label,
      loop |-> "once" ]

\* a step inside a for loop: "count" for a counted loop, "forever" for (;;)
Looped(st, mode) == [st EXCEPT !.loop = mode]

\* a resource_release of the cleanup chain and the label it stands under
Release(res, label) == [res |-> res, at |-> label]

\* the setup the programs built on the rcpr allocator share
CommonSetup ==
    << Call("rcpr_malloc_allocator_create", "setup", "cleanup_allocator"),
       CallSets("vccrypt_suite_options_init", "setup",
                ERROR_CRYPTO_SUITE_INIT, "cleanup_rcpr_allocator"),
       CallSets("vccert_builder_options_init", "setup",
                ERROR_CERTIFICATE_BUILDER_INIT, "cleanup_crypto_suite"),
       CallSets("vccert_parser_options_simple_init", "setup",
                ERROR_CERTIFICATE_PARSER_INIT, "cleanup_builder_opts"),
       CallSets("file_init", "setup",
                ERROR_FILE_ABSTRACTION_INIT, "cleanup_parser_opts") >>

\* the two getters every program calls on the certificate it connected with
ClientGetters ==
    << Call("vcblockchain_entity_get_artifact_id", "setup",
            "cleanup_connection"),
       Call("vcblockchain_entity_private_cert_get_private_signing_key",
            "setup", "cleanup_connection") >>

\* the tail of their cleanup chains
CommonLabels ==
    << "cleanup_file", "cleanup_parser_opts", "cleanup_builder_opts",
       "cleanup_crypto_suite", "cleanup_rcpr_allocator", "cleanup_allocator" >>

ConnectionReleases ==
    << Release("client_priv", "cleanup_connection"),
       Release("sock", "cleanup_connection") >>

status_close_CloseFirst ==
    [ steps |->
        CommonSetup
        \o << Call("agentd_connection_init", "handshake", "cleanup_file") >>
        \o ClientGetters
        \o << Call("send_and_verify_close_connection", "helper",
                   "cleanup_connection"),
              Call("get_and_verify_status", "helper", "cleanup_connection") >>,
      labels |-> << "cleanup_connection" >> \o CommonLabels,
      releases |->
        ConnectionReleases
        \o << Release("alloc", "cleanup_rcpr_allocator") >> ]

status_close ==
    [ steps |->
        CommonSetup
        \o << Call("agentd_connection_init", "handshake", "cleanup_file") >>
        \o ClientGetters
        \o << Call("get_and_verify_status", "helper", "cleanup_connection"),
              Call("send_and_verify_close_connection", "helper",
                   "cleanup_connection") >>,
      labels |-> << "cleanup_connection" >> \o CommonLabels,
      releases |->
        ConnectionReleases
        \o << Release("alloc", "cleanup_rcpr_allocator") >> ]

ping_client ==
    [ steps |->
        CommonSetup
        \o << Call("entity_public_certificate_create_from_file", "setup",
                   "cleanup_file"),
              Call("vcblockchain_entity_get_artifact_id", "setup",
                   "cleanup_ping_sentinel_cert"),
              Call("agentd_connection_init", "handshake",
                   "cleanup_ping_sentinel_cert") >>
        \o ClientGetters
        \o << Call("send_and_verify_ping_request", "ping",
                   "cleanup_connection"),
              Call("send_and_verify_close_connection", "helper",
                   "cleanup_connection") >>,
      labels |->
        << "cleanup_connection", "cleanup_ping_sentinel_cert" >>
        \o CommonLabels,
      releases |->
        ConnectionReleases
        \o << Release("ping_sentinel_cert", "cleanup_ping_sentinel_cert"),
              Release("alloc", "cleanup_rcpr_allocator") >> ]

\* ping_client with the ping in a loop of 10000 rounds
multi_ping_client ==
    [ steps |->
        CommonSetup
        \o << Call("entity_public_certificate_create_from_file", "setup",
                   "cleanup_file"),
              Call("vcblockchain_entity_get_artifact_id", "setup",
                   "cleanup_ping_sentinel_cert"),
              Call("agentd_connection_init", "handshake",
                   "cleanup_ping_sentinel_cert") >>
        \o ClientGetters
        \o << Looped(Call("send_and_verify_ping_request", "ping",
                          "cleanup_connection"), "count"),
              Call("send_and_verify_close_connection", "helper",
                   "cleanup_connection") >>,
      labels |->
        << "cleanup_connection", "cleanup_ping_sentinel_cert" >>
        \o CommonLabels,
      releases |->
        ConnectionReleases
        \o << Release("ping_sentinel_cert", "cleanup_ping_sentinel_cert"),
              Release("alloc", "cleanup_rcpr_allocator") >> ]

\* ping_sentinel with a counted loop in place of for (;;)
ping_sentinel_Counted ==
    [ steps |->
        CommonSetup
        \o << Call("agentd_connection_init", "handshake", "cleanup_file") >>
        \o ClientGetters
        \o << Call("send_and_verify_enable_extended_api", "helper",
                   "cleanup_connection"),
              Looped(Call("read_decode_and_dispatch_request", "dispatch",
                          "cleanup_connection"), "count"),
              Call("send_and_verify_close_connection", "helper",
                   "cleanup_connection") >>,
      labels |-> << "cleanup_connection" >> \o CommonLabels,
      releases |->
        ConnectionReleases
        \o << Release("alloc", "cleanup_rcpr_allocator") >> ]

\* the close after the for (;;) loop is never reached
ping_sentinel ==
    [ steps |->
        CommonSetup
        \o << Call("agentd_connection_init", "handshake", "cleanup_file") >>
        \o ClientGetters
        \o << Call("send_and_verify_enable_extended_api", "helper",
                   "cleanup_connection"),
              Looped(Call("read_decode_and_dispatch_request", "dispatch",
                          "cleanup_connection"), "forever"),
              Call("send_and_verify_close_connection", "helper",
                   "cleanup_connection") >>,
      labels |-> << "cleanup_connection" >> \o CommonLabels,
      releases |->
        ConnectionReleases
        \o << Release("alloc", "cleanup_rcpr_allocator") >> ]

\* a comparison of submit_multiple_txns: its code, the common label
TxnCheck(fn, code) == CallSets(fn, "check", code, "cleanup_txn3_agentd_cert")

\* a helper call of submit_multiple_txns after the three reads
TxnCall(fn) == Call(fn, "helper", "cleanup_txn3_agentd_cert")

submit_multiple_txns ==
    [ steps |->
        CommonSetup
        \o << Call("agentd_connection_init", "handshake", "cleanup_file") >>
        \o ClientGetters
        \o << CallSets("create_transaction_cert", "setup",
                       ERROR_TRANSACTION_CERT_CREATE, "cleanup_connection"),
              CallSets("create_next_transaction_cert", "setup",
                       ERROR_TRANSACTION_CERT_CREATE, "cleanup_txn1_cert"),
              CallSets("create_next_transaction_cert", "setup",
                       ERROR_TRANSACTION_CERT_CREATE, "cleanup_txn2_cert"),
              Call("submit_and_verify_txn", "helper", "cleanup_txn3_cert"),
              Call("submit_and_verify_txn", "helper", "cleanup_txn3_cert"),
              Call("submit_and_verify_txn", "helper", "cleanup_txn3_cert"),
              Call("get_and_verify_txn", "helper", "cleanup_txn3_cert"),
              Call("get_and_verify_txn", "helper",
                   "cleanup_txn1_agentd_cert"),
              Call("get_and_verify_txn", "helper",
                   "cleanup_txn2_agentd_cert"),
              TxnCheck("prev_txn1_id", ERROR_TXN1_PREV_ID_MISMATCH),
              TxnCheck("next_txn1_id", ERROR_TXN1_NEXT_ID_MISMATCH),
              TxnCheck("txn1_artifact_id", ERROR_TXN1_ARTIFACT_ID_MISMATCH),
              TxnCheck("prev_txn2_id", ERROR_TXN2_PREV_ID_MISMATCH),
              TxnCheck("next_txn2_id", ERROR_TXN2_NEXT_ID_MISMATCH),
              TxnCheck("txn2_artifact_id", ERROR_TXN1_ARTIFACT_ID_MISMATCH),
              TxnCheck("prev_txn3_id", ERROR_TXN3_PREV_ID_MISMATCH),
              TxnCheck("next_txn3_id", ERROR_TXN3_NEXT_ID_MISMATCH),
              TxnCheck("txn3_artifact_id", ERROR_TXN3_ARTIFACT_ID_MISMATCH),
              TxnCall("get_and_verify_next_txn_id"),
              TxnCheck("next_txn1_id", ERROR_TXN1_NEXT_ID_MISMATCH2),
              TxnCall("get_and_verify_next_txn_id"),
              TxnCheck("next_txn2_id", ERROR_TXN2_NEXT_ID_MISMATCH2),
              TxnCall("get_and_verify_prev_txn_id"),
              TxnCheck("prev_txn3_id", ERROR_TXN3_PREV_ID_MISMATCH2),
              TxnCall("get_and_verify_prev_txn_id"),
              TxnCheck("prev_txn2_id", ERROR_TXN2_PREV_ID_MISMATCH2),
              TxnCall("get_and_verify_txn_block_id"),
              TxnCall("get_and_verify_txn_block_id"),
              TxnCall("get_and_verify_txn_block_id"),
              TxnCheck("txn1_block_id", ERROR_TXN1_BLOCK_ID_MISMATCH),
              TxnCheck("txn2_block_id", ERROR_TXN2_BLOCK_ID_MISMATCH),
              TxnCheck("txn3_block_id", ERROR_TXN3_BLOCK_ID_MISMATCH) >>,
      labels |->
        << "cleanup_txn3_agentd_cert", "cleanup_txn2_agentd_cert",
           "cleanup_txn1_agentd_cert", "cleanup_txn3_cert",
           "cleanup_txn2_cert", "cleanup_txn1_cert", "cleanup_connection" >>
        \o CommonLabels,
      releases |->
        ConnectionReleases
        \o << Release("alloc", "cleanup_rcpr_allocator") >> ]

\* the programs below carry the protocol steps inline and set literal codes
submit_txn_and_read_block ==
    [ steps |->
        << CallSets("vccrypt_suite_options_init", "setup", 1,
                    "cleanup_allocator"),
           CallSets("vccert_builder_options_init", "setup", 230,
                    "cleanup_crypto_suite"),
           CallSets("file_init", "setup", 2, "cleanup_builder_opts"),
           Call("agentd_connection_init", "handshake", "cleanup_file") >>
        \o ClientGetters
        \o << CallSets("create_transaction_cert", "setup", 200,
                       "cleanup_connection"),
              Call("submit_and_verify_txn", "helper",
                   "cleanup_transaction_cert"),
              CallSets("vcblockchain_protocol_sendreq_block_next_id_get",
                       "send", 208, "cleanup_transaction_cert"),
              CallSets("vcblockchain_protocol_recvresp", "recv", 209,
                       "cleanup_transaction_cert"),
              CallSets("vcblockchain_protocol_response_decode_header",
                       "decode", 210, "cleanup_get_next_block_id_response"),
              CallSets("request_id", "check", 211,
                       "cleanup_get_next_block_id_response"),
              CallSets("status", "check", 212,
                       "cleanup_get_next_block_id_response"),
              CallSets("offset", "check", 213,
                       "cleanup_get_next_block_id_response"),
              CallSets("vcblockchain_protocol_decode_resp_block_next_id_get",
                       "decode", 214, "cleanup_get_next_block_id_response"),
              CallSets("vcblockchain_protocol_sendreq_block_get", "send",
                       215, "cleanup_get_next_block_id_resp"),
              CallSets("vcblockchain_protocol_recvresp", "recv", 216,
                       "cleanup_get_next_block_id_resp"),
              CallSets("vcblockchain_protocol_response_decode_header",
                       "decode", 217, "cleanup_get_block_response"),
              CallSets("request_id", "check", 218,
                       "cleanup_get_block_response"),
              CallSets("status", "check", 219,
                       "cleanup_get_block_response"),
              CallSets("offset", "check", 220,
                       "cleanup_get_block_response"),
              CallSets("vcblockchain_protocol_decode_resp_block_get",
                       "decode", 221, "cleanup_get_block_response") >>,
      labels |->
        << "cleanup_block_get_resp", "cleanup_get_block_response",
           "cleanup_get_next_block_id_resp",
           "cleanup_get_next_block_id_response", "cleanup_transaction_cert",
           "cleanup_connection", "cleanup_file", "cleanup_builder_opts",
           "cleanup_crypto_suite", "cleanup_allocator" >>,
      releases |-> << Release("client_priv", "cleanup_connection") >> ]

test_get_latest_block_empty ==
    [ steps |->
        << CallSets("vccrypt_suite_options_init", "setup", 1,
                    "cleanup_allocator"),
           CallSets("file_init", "setup", 2, "cleanup_crypto_suite"),
           Call("agentd_connection_init", "handshake", "cleanup_file"),
           CallSets("vcblockchain_protocol_sendreq_latest_block_id_get",
                    "send", 200, "cleanup_connection"),
           CallSets("vcblockchain_protocol_recvresp", "recv", 201,
                    "cleanup_connection"),
           CallSets("vcblockchain_protocol_response_decode_header",
                    "decode", 202, "cleanup_resp"),
           CallSets("request_id", "check", 203, "cleanup_resp"),
           CallSets("status", "check", 204, "cleanup_resp"),
           CallSets("vcblockchain_protocol_decode_resp_latest_block_id_get",
                    "decode", 205, "cleanup_resp"),
           CallSets("block_id", "check", 206, "cleanup_decoded_resp") >>,
      labels |->
        << "cleanup_decoded_resp", "cleanup_resp", "cleanup_connection",
           "cleanup_file", "cleanup_crypto_suite", "cleanup_allocator" >>,
      releases |-> << Release("client_priv", "cleanup_connection") >> ]

\* the handshake up to the acknowledgement request, step by step in main
test_handshake ==
    [ steps |->
        << CallSets("vccrypt_suite_options_init", "setup", 1,
                    "cleanup_allocator"),
           CallSets("file_init", "setup", 2, "cleanup_crypto_suite"),
           Call("entity_private_certificate_create_from_file", "setup",
                "cleanup_file"),
           CallSets("file_stat", "setup", 8, "cleanup_client_priv"),
           CallSets("vccrypt_buffer_init", "setup", 9,
                    "cleanup_client_priv"),
           CallSets("file_open", "setup", 10, "cleanup_cert2"),
           CallSets("file_read", "setup", 11, "cleanup_fd2"),
           CallSets("read_bytes", "check", 11, "cleanup_fd2"),
           CallSets("vcblockchain_entity_public_cert_decode", "setup", 12,
                    "cleanup_fd2"),
           CallSets("ssock_init_from_host_address", "setup", 13,
                    "cleanup_server_pub"),
           Call("vcblockchain_entity_get_artifact_id", "setup",
                "cleanup_sock"),
           Call("vcblockchain_entity_get_public_encryption_key", "setup",
                "cleanup_sock"),
           Call("vcblockchain_entity_private_cert_get_private_encryption_key",
                "setup", "cleanup_sock"),
           CallSets("vcblockchain_protocol_sendreq_handshake_request",
                    "send", 101, "cleanup_sock"),
           CallSets("vcblockchain_protocol_recvresp_handshake_request",
                    "recv", 102, "cleanup_handshake_req"),
           CallSets("status", "check", 102, "cleanup_handshake_req"),
           CallSets("vcblockchain_protocol_sendreq_handshake_ack", "send",
                    103, "cleanup_handshake_resp") >>,
      labels |->
        << "cleanup_handshake_resp", "cleanup_handshake_req", "cleanup_sock",
           "cleanup_server_pub", "cleanup_fd2", "cleanup_cert2",
           "cleanup_client_priv", "cleanup_file", "cleanup_crypto_suite",
           "cleanup_allocator" >>,
      releases |->
        << Release("server_pub", "cleanup_server_pub"),
           Release("client_priv", "cleanup_client_priv") >> ]

Programs ==
    [ status_close |-> status_close,
      ping_client |-> ping_client,
      multi_ping_client |-> multi_ping_client,
      ping_sentinel |-> ping_sentinel,
      submit_multiple_txns |-> submit_multiple_txns,
      submit_txn_and_read_block |-> submit_txn_and_read_block,
      test_get_latest_block_empty |-> test_get_latest_block_empty,
      test_handshake |-> test_handshake ]

ProgramNames == DOMAIN Programs

\* the position of a label in the cleanup chain of program p
LabelPos(p, l) ==
    CHOOSE i \in 1..Len(Programs[p].labels) : Programs[p].labels[i] = l

\* a resource_release or dispose of the cleanup chain and the label it
\* stands under
Disposal(res, label) == [res |-> res, at |-> label]

\* what the programs do under cleanup_connection
ConnectionCleanups ==
    << Disposal("client_priv", "cleanup_connection"),
       Disposal("shared_secret", "cleanup_connection"),
       Disposal("sock", "cleanup_connection") >>

\* what the programs built on the rcpr allocator do from cleanup_file on
CommonCleanups ==
    << Disposal("file", "cleanup_file"),
       Disposal("parser_options", "cleanup_parser_opts"),
       Disposal("builder_opts", "cleanup_builder_opts"),
       Disposal("suite", "cleanup_crypto_suite"),
       Disposal("alloc", "cleanup_rcpr_allocator"),
       Disposal("alloc_opts", "cleanup_allocator") >>

\* what the programs that set literal codes do from cleanup_connection on
InlineCleanups ==
    ConnectionCleanups
    \o << Disposal("file", "cleanup_file"),
          Disposal("suite", "cleanup_crypto_suite"),
          Disposal("alloc_opts", "cleanup_allocator") >>

\* the whole cleanup chain of a program, disposes and releases, in the
\* order of the source
Cleanups ==
    [ status_close |-> ConnectionCleanups \o CommonCleanups,
      ping_client |->
        ConnectionCleanups
        \o << Disposal("ping_sentinel_cert", "cleanup_ping_sentinel_cert") >>
        \o CommonCleanups,
      multi_ping_client |->
        ConnectionCleanups
        \o << Disposal("ping_sentinel_cert", "cleanup_ping_sentinel_cert") >>
        \o CommonCleanups,
      ping_sentinel |-> ConnectionCleanups \o CommonCleanups,
      submit_multiple_txns |->
        << Disposal("txn3_cert", "cleanup_txn3_agentd_cert"),
           Disposal("txn2_cert", "cleanup_txn2_agentd_cert"),
           Disposal("txn1_cert", "cleanup_txn1_agentd_cert"),
           Disposal("cert3_buffer", "cleanup_txn3_cert"),
           Disposal("cert2_buffer", "cleanup_txn2_cert"),
           Disposal("cert1_buffer", "cleanup_txn1_cert") >>
        \o ConnectionCleanups \o CommonCleanups,
      submit_txn_and_read_block |->
        << Disposal("block_get_resp", "cleanup_block_get_resp"),
           Disposal("get_block_response", "cleanup_get_block_response"),
           Disposal("get_next_block_id_resp",
                    "cleanup_get_next_block_id_resp"),
           Disposal("get_next_block_id_response",
                    "cleanup_get_next_block_id_response"),
           Disposal("cert_buffer", "cleanup_transaction_cert") >>
        \o ConnectionCleanups
        \o << Disposal("file", "cleanup_file"),
              Disposal("builder_opts", "cleanup_builder_opts"),
              Disposal("suite", "cleanup_crypto_suite"),
              Disposal("alloc_opts", "cleanup_allocator") >>,
      test_get_latest_block_empty |->
        << Disposal("decoded_resp", "cleanup_decoded_resp"),
           Disposal("resp", "cleanup_resp") >>
        \o InlineCleanups,
      test_handshake |->
        << Disposal("server_pubkey", "cleanup_handshake_resp"),
           Disposal("server_challenge_nonce", "cleanup_handshake_resp"),
           Disposal("shared_secret", "cleanup_handshake_resp"),
           Disposal("key_nonce", "cleanup_handshake_req"),
           Disposal("challenge_nonce", "cleanup_handshake_req"),
           Disposal("sock", "cleanup_sock"),
           Disposal("server_pub", "cleanup_server_pub"),
           Disposal("fd2", "cleanup_fd2"),
           Disposal("cert2", "cleanup_cert2"),
           Disposal("client_priv", "cleanup_client_priv"),
           Disposal("file", "cleanup_file"),
           Disposal("suite", "cleanup_crypto_suite"),
           Disposal("alloc_opts", "cleanup_allocator") >> ]

\* what main owns before its first call: malloc_allocator_options_init
\* cannot fail
Preacquired == {"alloc_opts"}

\* what the calls of the common setup leave main owning when they succeed,
\* per call of the function in program order
CommonAcquires ==
    [ rcpr_malloc_allocator_create |-> << {"alloc"} >>,
      vccrypt_suite_options_init |-> << {"suite"} >>,
      vccert_builder_options_init |-> << {"builder_opts"} >>,
      vccert_parser_options_simple_init |-> << {"parser_options"} >>,
      file_init |-> << {"file"} >>,
      agentd_connection_init |->
        << {"client_priv", "shared_secret", "sock"} >> ]

\* what the other calls of each program leave main owning; in
\* test_handshake the buffers of the handshake response are main's once
\* the call returned success with status 0
ProgAcquires ==
    [ status_close |-> CommonAcquires,
      ping_client |->
        [ entity_public_certificate_create_from_file |->
            << {"ping_sentinel_cert"} >> ] @@ CommonAcquires,
      multi_ping_client |->
        [ entity_public_certificate_create_from_file |->
            << {"ping_sentinel_cert"} >> ] @@ CommonAcquires,
      ping_sentinel |-> CommonAcquires,
      submit_multiple_txns |->
        [ create_transaction_cert |-> << {"cert1_buffer"} >>,
          create_next_transaction_cert |->
            << {"cert2_buffer"}, {"cert3_buffer"} >>,
          get_and_verify_txn |->
            << {"txn1_cert"}, {"txn2_cert"}, {"txn3_cert"} >> ]
        @@ CommonAcquires,
      submit_txn_and_read_block |->
        [ create_transaction_cert |-> << {"cert_buffer"} >>,
          vcblockchain_protocol_recvresp |->
            << {"get_next_block_id_response"}, {"get_block_response"} >>,
          vcblockchain_protocol_decode_resp_block_next_id_get |->
            << {"get_next_block_id_resp"} >>,
          vcblockchain_protocol_decode_resp_block_get |->
            << {"block_get_resp"} >> ]
        @@ CommonAcquires,
      test_get_latest_block_empty |->
        [ vcblockchain_protocol_recvresp |-> << {"resp"} >>,
          vcblockchain_protocol_decode_resp_latest_block_id_get |->
            << {"decoded_resp"} >> ]
        @@ CommonAcquires,
      test_handshake |->
        [ vccrypt_suite_options_init |-> << {"suite"} >>,
          file_init |-> << {"file"} >>,
          entity_private_certificate_create_from_file |->
            << {"client_priv"} >>,
          vccrypt_buffer_init |-> << {"cert2"} >>,
          file_open |-> << {"fd2"} >>,
          vcblockchain_entity_public_cert_decode |-> << {"server_pub"} >>,
          ssock_init_from_host_address |-> << {"sock"} >>,
          vcblockchain_protocol_sendreq_handshake_request |->
            << {"key_nonce", "challenge_nonce"} >>,
          status |->
            << {"server_pubkey", "server_challenge_nonce",
                "shared_secret"} >> ] ]

\* the chain running from its first label whatever the label jumped to
CleanedFrom_WholeChain(p, l) == Cleanups[p]

\* what the chain of program p entered at label l cleans up, in order
CleanedFrom(p, l) ==
    SelectSeq(Cleanups[p], LAMBDA r : LabelPos(p, r.at) >= LabelPos(p, l))

\* what a callee returned and the sends and receives it attempted on the
\* session
Outcome(code, ops) == [code |-> code, io |-> ops]

\* a call into a library that touches no socket
LibraryCall ==
    { Outcome(c, << >>) : c \in {STATUS_SUCCESS} \cup LibraryErrors }

\* a comparison main makes itself: 0 when the values agree
Comparison == { Outcome(c, << >>) : c \in {STATUS_SUCCESS, 1} }

\* a send or a receive main makes itself
TransportCall(op) ==
    { Outcome(c, << op >>) : c \in {STATUS_SUCCESS} \cup LibraryErrors }

\* the message a step of agentd_connection_init puts on or takes off the
\* socket
WireOp(step) ==
    CASE step \in {"send_handshake_request", "send_handshake_ack"} ->
            << "send" >>
      [] step \in {"recv_handshake_response", "recv_handshake_ack"} ->
            << "recv" >>
      [] OTHER -> << >>

RECURSIVE HandshakeIo(_)
HandshakeIo(n) ==
    IF n = 0 THEN << >> ELSE HandshakeIo(n - 1) \o WireOp(StepOrder[n])

\* agentd_connection_init as a call: it fails at one of its steps with that
\* step's code, or a certificate release overrides the code, or it succeeds
HandshakeCall ==
    { Outcome(FailCode(StepOrder[n], e), HandshakeIo(n)) :
        n \in 1..Len(StepOrder), e \in LibraryErrors }
    \cup { Outcome(e, HandshakeIo(n)) :
            n \in 1..Len(StepOrder), e \in LibraryErrors }
    \cup { Outcome(STATUS_SUCCESS, HandshakeIo(Len(StepOrder))) }

\* a helper as a call: the send, the receive when the send succeeded, the
\* checks when the receive succeeded
HelperCall(k, arg, send_ok, recv_ok, r) ==
    IF AfterSend(send_ok) = "returned"
    THEN Outcome(HelperTable[k].send, << "send" >>)
    ELSE IF AfterRecv(recv_ok) = "returned"
    THEN Outcome(HelperTable[k].recv, << "send", "recv" >>)
    ELSE Outcome(HelperVerify(k, RequestOffset(k, arg), r),
                 << "send", "recv" >>)

HelperCalls(k, arg) ==
    { HelperCall(k, arg, send_ok, recv_ok, r) :
        send_ok \in BOOLEAN, recv_ok \in BOOLEAN,
        r \in Responses(k, RequestOffset(k, arg)) }

\* the responses a ping with offset off may meet
PingResponses(off) ==
    InjectedMessages
    \cup { CallerResponse([offset |-> Token(1, o), status |-> s, size |-> 1]) :
            o \in {off, off + 1},
            s \in {STATUS_SUCCESS,
                   UNLISTED_CODE.ERROR_READ_EXTENDED_API_INVALID_VERB} }

\* send_and_verify_ping_request as a call
PingCall(off, alloc_ok, e, send_ok, recv_ok, r) ==
    IF ~alloc_ok THEN Outcome(e, << >>)
    ELSE IF ~send_ok
    THEN Outcome(UNLISTED_CODE.ERROR_PING_REQUEST_SEND, << "send" >>)
    ELSE IF ~recv_ok
    THEN Outcome(UNLISTED_CODE.ERROR_PING_RESPONSE_RECEIVE,
                 << "send", "recv" >>)
    ELSE Outcome(PingVerify(off, r), << "send", "recv" >>)

PingCalls(off) ==
    { PingCall(off, alloc_ok, e, send_ok, recv_ok, r) :
        alloc_ok \in BOOLEAN, e \in LibraryErrors, send_ok \in BOOLEAN,
        recv_ok \in BOOLEAN, r \in PingResponses(off) }

\* read_decode_and_dispatch_request as a call: m is the request it read, a
\* the message it read after its response
DispatchCall(recv_ok, m, alloc_ok, send_ok, ack_ok, a) ==
    IF ~recv_ok
    THEN Outcome(UNLISTED_CODE.ERROR_READ_EXTENDED_API_RESPONSE,
                 << "recv" >>)
    ELSE LET d == SentinelDispatch(m, 1, alloc_ok, send_ok)
             sent == IF d.sent = << >> THEN << >> ELSE << "send" >>
         IN  IF d.retval # STATUS_SUCCESS
             THEN Outcome(d.retval, << "recv" >> \o sent)
             ELSE IF ~ack_ok
             THEN Outcome(UNLISTED_CODE.ERROR_READ_EXTENDED_API_RESPONSE,
                          << "recv", "send", "recv" >>)
             ELSE Outcome(SentinelCheckAck(a), << "recv", "send", "recv" >>)

DispatchCalls ==
    { DispatchCall(recv_ok, m, alloc_ok, send_ok, ack_ok, a) :
        recv_ok \in BOOLEAN, alloc_ok \in BOOLEAN, send_ok \in BOOLEAN,
        ack_ok \in BOOLEAN,
        m \in InjectedMessages \cup { ClientRequest(1, v, 5) : v \in Verbs },
        a \in InjectedMessages }

\* what the callee of step st may return; ctr is the value of offset_ctr
Calls(st, ctr) ==
    CASE st.kind = "handshake" -> HandshakeCall
      [] st.kind = "helper" -> HelperCalls(st.fn, ctr)
      [] st.kind = "ping" -> PingCalls(ctr)
      [] st.kind = "dispatch" -> DispatchCalls
      [] st.kind = "send" -> TransportCall("send")
      [] st.kind = "recv" -> TransportCall("recv")
      [] st.kind = "check" -> Comparison
      [] OTHER -> LibraryCall

\* a failed comparison leaving retval as it was
StepRetval_CheckSilent(st, code, rv) ==
    IF st.kind = "check" THEN rv
    ELSE IF code # STATUS_SUCCESS THEN (IF st.own THEN st.code ELSE code)
    ELSE code

\* main's retval after the step: the callee's result, main's own code
\* where main sets one on failure; a comparison that passes assigns nothing
StepRetval(st, code, rv) ==
    IF code # STATUS_SUCCESS THEN (IF st.own THEN st.code ELSE code)
    ELSE IF st.kind = "check" THEN rv
    ELSE code

\* a failure not followed by its goto
AfterStep_Continue(p, at, failed, again) ==
    IF again THEN [pc |-> "run", at |-> at]
    ELSE IF at < Len(Programs[p].steps) THEN [pc |-> "run", at |-> at + 1]
    ELSE [pc |-> "cleanup", at |-> at]

\* where main goes after the step at position at: to the cleanup chain when
\* it failed, round the loop again, to the next step, or, past the last one,
\* to the cleanup chain with retval = STATUS_SUCCESS
AfterStep(p, at, failed, again) ==
    IF failed THEN [pc |-> "cleanup", at |-> at]
    ELSE IF again THEN [pc |-> "run", at |-> at]
    ELSE IF at < Len(Programs[p].steps) THEN [pc |-> "run", at |-> at + 1]
    ELSE [pc |-> "cleanup", at |-> at]

\* the releases of the chain of program p entered at label l, in order
ChainFrom(p, l) ==
    SelectSeq(Programs[p].releases,
              LAMBDA r : LabelPos(p, r.at) >= LabelPos(p, l))

\* retval after the releases: each failing release overwrites it
RECURSIVE ReleaseRetval(_, _)
ReleaseRetval(rv, done) ==
    IF done = << >> THEN rv
    ELSE ReleaseRetval(IF Head(done).code # STATUS_SUCCESS
                       THEN Head(done).code ELSE rv, Tail(done))

\* offset_ctr never incremented
OffsetCtr_Fixed(round) == 5

\* offset_ctr, 5U at the start and incremented by each call that takes it
OffsetCtr(round) == 5 + round

\* one call or comparison of main and the branch after it
ProgStep ==
    /\ ppc = "run"
    /\ LET st == Programs[prog].steps[pstep]
       IN  /\ st.loop = "forever" => pround < MaxRounds
           /\ \E o \in Calls(st, OffsetCtr(pround)) :
                LET failed == o.code # STATUS_SUCCESS
                    again == \/ st.loop = "forever"
                             \/ st.loop = "count" /\ pround + 1 < MaxRounds
                    to == AfterStep(prog, pstep, failed, again)
                IN  /\ ptrace' = Append(ptrace,
                                    [ fn |-> st.fn, kind |-> st.kind,
                                      code |-> o.code, io |-> o.io,
                                      ctr |-> OffsetCtr(pround) ])
                    /\ pretval' = StepRetval(st, o.code, pretval)
                    /\ ppc' = to.pc
                    /\ pstep' = to.at
                    /\ plabel' = IF failed THEN st.label
                                 ELSE IF to.pc = "cleanup"
                                      THEN Programs[prog].labels[1]
                                      ELSE plabel
                    /\ pround' = IF st.loop = "once" \/ failed THEN pround
                                 ELSE pround + 1
    /\ UNCHANGED << hsvars, ivvars, helpervars, pingvars, localvars, prog, preleased >>

\* the cleanup chain from the label main jumped to, and the return
ProgCleanup ==
    /\ ppc = "cleanup"
    /\ LET chain == ChainFrom(prog, plabel)
       IN  \E codes \in [1..Len(chain) -> {STATUS_SUCCESS} \cup LibraryErrors] :
            /\ preleased' = [ i \in 1..Len(chain) |->
                                [res |-> chain[i].res, code |-> codes[i]] ]
            /\ pretval' = ReleaseRetval(pretval, preleased')
    /\ ppc' = "exited"
    /\ UNCHANGED << hsvars, ivvars, helpervars, pingvars, localvars, prog, pstep,
                    plabel, pround, ptrace >>

\* no local function was called
LocalIdle ==
    /\ lfn = "none"
    /\ larg = << >>
    /\ lret = STATUS_SUCCESS

\* no example program runs
ProgIdle ==
    /\ prog = "none"
    /\ ppc = "off"
    /\ pstep = 1
    /\ plabel = "none"
    /\ pretval = STATUS_SUCCESS
    /\ pround = 0
    /\ ptrace = << >>
    /\ preleased = << >>

(***************************************************************************)
(* The specification.                                                      *)
(***************************************************************************)
Init ==
    /\ pc = "read_private_key"
    /\ success = FALSE
    /\ retval = STATUS_SUCCESS
    /\ acq = [r \in Resources |-> 0]
    /\ rel = [r \in Resources |-> 0]
    /\ nonnull = {"shared_secret", "sock", "cert"}
    /\ server_id = NoValue
    /\ server_pubkey = NoValue
    /\ server_id_from_server = NoValue
    /\ server_pubkey_from_server = NoValue
    /\ hs_status = STATUS_SUCCESS
    /\ shared_secret_size = 0
    /\ response = NoValue
    /\ release_retval =
          [server_cert |-> STATUS_SUCCESS, cert |-> STATUS_SUCCESS]
    /\ client_iv \in UninitialisedIvs
    /\ server_iv \in UninitialisedIvs
    /\ hlog = << >>
    /\ hpc = "idle"
    /\ kind = "none"
    /\ sent_offset = 0
    /\ resp = NoValue
    /\ io = << >>
    /\ hret = STATUS_SUCCESS
    /\ out = Unset
    /\ ncalls = 0
    /\ nfailed = 0
    /\ exch = NoExchange
    /\ PingIdle
    /\ ProgIdle
    /\ LocalIdle

Next ==
    \/ ReadPrivateKey
    \/ ReadPublicKey
    \/ OpenSocket
    \/ GetEntityFields
    \/ SendHandshakeRequest
    \/ ReceiveHandshakeResponse
    \/ VerifyServerId
    \/ VerifyServerPubkey
    \/ SendHandshakeAck
    \/ ReceiveHandshakeAck
    \/ DecodeAckHeader
    \/ VerifyAckRequestId
    \/ VerifyAckStatus
    \/ Cleanup
    \/ SessionStart
    \/ HelperSend
    \/ HelperReceive
    \/ HelperVerifyResponse

Spec == Init /\ [][Next]_vars

\* the sentinel has enabled the extended API and waits in its loop, the
\* callers hold established sessions; e is the kind of agent and transport
PingStart(e) ==
    /\ pc = "extended_api"
    /\ success = TRUE
    /\ retval = STATUS_SUCCESS
    /\ acq = [r \in Resources |-> 0]
    /\ rel = [r \in Resources |-> 0]
    /\ nonnull = {"shared_secret", "sock", "cert"}
    /\ server_id = NoValue
    /\ server_pubkey = NoValue
    /\ server_id_from_server = NoValue
    /\ server_pubkey_from_server = NoValue
    /\ hs_status = STATUS_SUCCESS
    /\ shared_secret_size = KEY_SIZE
    /\ response = NoValue
    /\ release_retval =
          [server_cert |-> STATUS_SUCCESS, cert |-> STATUS_SUCCESS]
    /\ client_iv = INITIAL_IV + 1
    /\ server_iv = INITIAL_IV + 1
    /\ hlog = << >>
    /\ hpc = "idle"
    /\ kind = "none"
    /\ sent_offset = 0
    /\ resp = NoValue
    /\ io = << >>
    /\ hret = STATUS_SUCCESS
    /\ out = Unset
    /\ ncalls = 0
    /\ nfailed = 0
    /\ exch = NoExchange
    /\ env = e
    /\ payload_size \in {1, 2}
    /\ spc = "read_request"
    /\ sretval = STATUS_SUCCESS
    /\ sin = << >>
    /\ slog = << >>
    /\ areq = << >>
    /\ aresp = << >>
    /\ cpc = [c \in Callers |-> "idle"]
    /\ offset_ctr = [c \in Callers |-> 5]
    /\ csent = [c \in Callers |-> 0]
    /\ cin = [c \in Callers |-> NoValue]
    /\ cret = [c \in Callers |-> STATUS_SUCCESS]
    /\ cpings = [c \in Callers |-> 0]
    /\ ninjected = 0
    /\ ProgIdle
    /\ LocalIdle

InitPing == PingStart("faulty")

NextPing ==
    \/ \E c \in Callers : PingSend(c)
    \/ \E c \in Callers : PingReceive(c)
    \/ AgentRelayRequest
    \/ AgentRelayResponse
    \/ AgentInjects
    \/ SentinelReadRequest
    \/ SentinelReadSendResponse

\* callers, agent and sentinel with transport and allocation failures and
\* stray messages
SpecPing == InitPing /\ [][NextPing]_vars

InitFaithful == PingStart("faithful")

NextFaithful ==
    \/ \E c \in Callers : PingSend(c)
    \/ \E c \in Callers : PingReceive(c)
    \/ AgentRelayRequest
    \/ AgentRelayResponse
    \/ SentinelReadRequest
    \/ SentinelReadSendResponse

\* a faithful agent, no transport or allocation failure, and every process
\* that can take a step eventually takes it
FairPing ==
    /\ InitFaithful
    /\ [][NextFaithful]_vars
    /\ WF_vars(AgentRelayRequest)
    /\ WF_vars(AgentRelayResponse)
    /\ WF_vars(SentinelReadRequest)
    /\ WF_vars(SentinelReadSendResponse)
    /\ \A c \in Callers : WF_vars(PingReceive(c))

\* one of the example programs is started: no session exists yet
InitProg ==
    /\ pc = "main"
    /\ success = FALSE
    /\ retval = STATUS_SUCCESS
    /\ acq = [r \in Resources |-> 0]
    /\ rel = [r \in Resources |-> 0]
    /\ nonnull = {"shared_secret", "sock", "cert"}
    /\ server_id = NoValue
    /\ server_pubkey = NoValue
    /\ server_id_from_server = NoValue
    /\ server_pubkey_from_server = NoValue
    /\ hs_status = STATUS_SUCCESS
    /\ shared_secret_size = 0
    /\ response = NoValue
    /\ release_retval =
          [server_cert |-> STATUS_SUCCESS, cert |-> STATUS_SUCCESS]
    /\ client_iv = INITIAL_IV
    /\ server_iv = INITIAL_IV
    /\ hlog = << >>
    /\ hpc = "idle"
    /\ kind = "none"
    /\ sent_offset = 0
    /\ resp = NoValue
    /\ io = << >>
    /\ hret = STATUS_SUCCESS
    /\ out = Unset
    /\ ncalls = 0
    /\ nfailed = 0
    /\ exch = NoExchange
    /\ PingIdle
    /\ prog \in ProgramNames
    /\ ppc = "run"
    /\ pstep = 1
    /\ plabel = "none"
    /\ pretval = STATUS_SUCCESS
    /\ pround = 0
    /\ ptrace = << >>
    /\ preleased = << >>
    /\ LocalIdle

NextProg ==
    \/ ProgStep
    \/ ProgCleanup

\* each example program from its start to its return, with every call free
\* to fail
SpecProg == InitProg /\ [][NextProg]_vars

(***************************************************************************)
(* Properties.                                                             *)
(***************************************************************************)
Attempted(step) == \E i \in 1..Len(hlog) : hlog[i].step = step

Succeeded(step) == \E i \in 1..Len(hlog) : hlog[i].step = step /\ hlog[i].ok

Failed(step) == \E i \in 1..Len(hlog) : hlog[i].step = step /\ ~hlog[i].ok

\* the handshake response was received and its values are still in scope
ResponseInScope == Succeeded("recv_handshake_response") /\ pc # "session"

PinnedIdReceived == server_id_from_server = server_id

PinnedKeyReceived == server_pubkey_from_server = server_pubkey

\* C1: the handshake acknowledgement is sent, and STATUS_SUCCESS is
\* returned, only if the server artifact id received in the handshake
\* response is byte-equal to the pinned id and the received public
\* encryption key has the size and the bytes of the pinned key.
C1_AckOnlyToPinnedServer ==
    ResponseInScope =>
        /\ Attempted("send_handshake_ack") =>
                PinnedIdReceived /\ PinnedKeyReceived
        /\ (pc = "returned" /\ retval = STATUS_SUCCESS) =>
                PinnedIdReceived /\ PinnedKeyReceived

\* a response with the pinned id and a key that is a proper prefix of the
\* pinned key was rejected without an acknowledgement
C1_Witness ==
    /\ pc = "returned"
    /\ ResponseInScope
    /\ PinnedIdReceived
    /\ Len(server_pubkey_from_server) < Len(server_pubkey)
    /\ \A i \in 1..Len(server_pubkey_from_server) :
            server_pubkey_from_server[i] = server_pubkey[i]
    /\ ~Attempted("send_handshake_ack")
    /\ retval # STATUS_SUCCESS

\* the order in which the claim lists the steps
NamedOrder ==
    << "read_private_key", "read_public_key", "open_socket",
       "send_handshake_request", "recv_handshake_response",
       "verify_server_id", "verify_server_pubkey", "send_handshake_ack",
       "recv_handshake_ack" >>

IsNamed(e) == \E i \in 1..Len(NamedOrder) : NamedOrder[i] = e.step

\* C2: the steps are attempted in the fixed order private certificate,
\* server certificate, connect, handshake request, handshake response,
\* verification of id and key, acknowledgement, acknowledgement response;
\* a step is attempted only if every earlier step succeeded, and the first
\* failing step ends the handshake in failure with no later step executed.
C2_StepsInFixedOrder ==
    LET named == SelectSeq(hlog, IsNamed)
    IN  /\ Len(named) <= Len(NamedOrder)
        /\ \A i \in 1..Len(named) : named[i].step = NamedOrder[i]
        /\ \A i \in 1..Len(hlog) : i < Len(hlog) => hlog[i].ok
        /\ (\E i \in 1..Len(hlog) : ~hlog[i].ok) =>
                /\ ~success
                /\ pc \in LabelSet \cup {"returned"}
                /\ pc = "returned" => retval # STATUS_SUCCESS
        /\ Attempted("open_socket") =>
                Succeeded("read_private_key") /\ Succeeded("read_public_key")

\* the acknowledgement could not be sent: the function returned without
\* trying to read an acknowledgement response
C2_Witness ==
    /\ pc = "returned"
    /\ Failed("send_handshake_ack")
    /\ ~Attempted("recv_handshake_ack")
    /\ retval # STATUS_SUCCESS

\* C3: when agentd_connection_init returns STATUS_SUCCESS the returned
\* client_iv is 2 and the returned server_iv is 2 (1 and 1 at the
\* acknowledgement step, client_iv advanced by the acknowledgement send,
\* server_iv by the receive of its response), and a shared secret of the
\* suite's key size has been returned.
C3_IvsAreTwoOnSuccess ==
    /\ Succeeded("send_handshake_ack") /\ pc = "recv_handshake_ack" =>
            client_iv = INITIAL_IV + 1 /\ server_iv = INITIAL_IV
    /\ (pc = "returned" /\ retval = STATUS_SUCCESS) =>
            /\ client_iv = 2
            /\ server_iv = 2
            /\ acq["shared_secret"] = 1
            /\ rel["shared_secret"] = 0
            /\ shared_secret_size = KEY_SIZE

C3_Witness ==
    /\ pc = "returned"
    /\ retval = STATUS_SUCCESS
    /\ Succeeded("recv_handshake_ack")
    /\ client_iv = 2
    /\ server_iv = 2

\* the message kind the protocol pairs with each standard helper
KindOfHelper ==
    [ get_and_verify_last_block_id |-> "LATEST_BLOCK_ID_GET",
      get_and_verify_block_id_by_height |-> "BLOCK_ID_BY_HEIGHT_GET",
      get_and_verify_block |-> "BLOCK_BY_ID_GET",
      get_and_verify_next_block_id |-> "BLOCK_ID_GET_NEXT",
      get_and_verify_prev_block_id |-> "BLOCK_ID_GET_PREV",
      get_and_verify_txn |-> "TRANSACTION_BY_ID_GET",
      get_and_verify_next_txn_id |-> "TRANSACTION_ID_GET_NEXT",
      get_and_verify_prev_txn_id |-> "TRANSACTION_ID_GET_PREV",
      get_and_verify_txn_block_id |-> "TRANSACTION_ID_GET_BLOCK_ID",
      get_and_verify_artifact_first_txn_id |-> "ARTIFACT_FIRST_TXN_BY_ID_GET",
      get_and_verify_artifact_last_txn_id |-> "ARTIFACT_LAST_TXN_BY_ID_GET",
      get_and_verify_status |-> "STATUS_GET",
      send_and_verify_close_connection |-> "CLOSE",
      send_and_verify_enable_extended_api |-> "EXTENDED_API_ENABLE" ]

HelperReturned == pc = "session" /\ hpc = "returned"

\* everything the recipe requires of one exchange went right
ExchangeGood ==
    /\ Len(io) = 2
    /\ io[1].ok
    /\ io[2].ok
    /\ Len(resp.hdr) >= 3
    /\ resp.hdr[1] = PROTOCOL_REQ_ID[KindOfHelper[kind]]
    /\ resp.hdr[3] = 0
    /\ resp.hdr[2] = sent_offset
    /\ decode_body_ok(kind, resp)

\* C4: a standard helper returns STATUS_SUCCESS if and only if the send
\* succeeded, the receive succeeded, the response header decoded, its
\* request_id is the kind's id, its status is 0, its offset is the offset
\* the helper sent, and the body decoded; otherwise it returns non-zero.
C4_HelperSucceedsIffExchangeGood ==
    (HelperReturned /\ kind \in DOMAIN KindOfHelper) =>
        (hret = STATUS_SUCCESS <=> ExchangeGood)

\* get_and_verify_txn returned STATUS_SUCCESS after a complete exchange
C4_Witness ==
    /\ HelperReturned
    /\ kind = "get_and_verify_txn"
    /\ hret = STATUS_SUCCESS
    /\ ExchangeGood
    /\ out = resp.body

C5_CountersAfterCalls ==
    (pc = "session" /\ hpc \in {"idle", "returned"} /\ nfailed = 0) =>
        client_iv = 2 + ncalls /\ server_iv = 2 + ncalls

C5_CountersPerStep ==
    pc = "session" =>
        \* a successful send
        /\ (hpc \in {"idle", "returned"} /\ hpc' = "await") =>
                client_iv' = client_iv + 1
        \* the send step, successful or not
        /\ hpc \in {"idle", "returned"} => server_iv' = server_iv
        \* a successful receive
        /\ (hpc = "await" /\ hpc' = "verify") => server_iv' = server_iv + 1
        \* the receive step, successful or not
        /\ hpc = "await" => client_iv' = client_iv
        \* the checks after the receive
        /\ hpc = "verify" => UNCHANGED << client_iv, server_iv >>

\* C5: each successful helper call advances client_iv by exactly 1, in
\* its send, and server_iv by exactly 1, in its receive; the send never
\* changes server_iv and the receive never changes client_iv; after k
\* successful calls following a successful handshake both counters are
\* 2 + k.
C5_EachCallAdvancesBothIvsByOne ==
    [] C5_CountersAfterCalls /\ [][C5_CountersPerStep]_vars

C5_Witness ==
    /\ HelperReturned
    /\ nfailed = 0
    /\ ncalls = 2
    /\ hret = STATUS_SUCCESS
    /\ client_iv = 4
    /\ server_iv = 4

\* C6: a helper invocation makes exactly one send attempt, then at most
\* one receive attempt; the receive is attempted only if the send
\* succeeded; a failed send or receive is not retried, it ends the call
\* with a non-zero code.
C6_OneSendThenAtMostOneReceive ==
    (pc = "session" /\ ncalls > 0) =>
        /\ Len(io) \in {1, 2}
        /\ io[1].op = "send"
        /\ Len(io) = 2 => io[2].op = "recv" /\ io[1].ok
        /\ hpc = "await" => Len(io) = 1
        /\ (\E i \in 1..Len(io) : ~io[i].ok) =>
                /\ hpc = "returned"
                /\ hret # STATUS_SUCCESS
                /\ ~io[Len(io)].ok

\* submit_and_verify_txn sent, failed to receive, and returned
C6_Witness ==
    /\ HelperReturned
    /\ kind = "submit_and_verify_txn"
    /\ Len(io) = 2
    /\ io[1].ok
    /\ ~io[2].ok
    /\ hret = 202

\* the code the function returns when retval was code at the start of the
\* cleanup: the code of a certificate release that failed, if one did
AfterReleases(code) ==
    IF release_retval.cert # STATUS_SUCCESS THEN release_retval.cert
    ELSE IF release_retval.server_cert # STATUS_SUCCESS
         THEN release_retval.server_cert
         ELSE code

\* C7 as claimed: a received id that differs from the pinned id makes the
\* function return ERROR_SERVER_ID_MISMATCH, a matching id with a
\* differing key ERROR_SERVER_KEY_MISMATCH.
C7_MismatchCodeReturned ==
    (pc = "returned" /\ ResponseInScope) =>
        /\ ~PinnedIdReceived => retval = ERROR_SERVER_ID_MISMATCH
        /\ (PinnedIdReceived /\ ~PinnedKeyReceived) =>
                retval = ERROR_SERVER_KEY_MISMATCH

\* C7 as amended: the id is compared first and a differing id sets
\* ERROR_SERVER_ID_MISMATCH, a matching id with a differing key sets
\* ERROR_SERVER_KEY_MISMATCH; that code is returned unless a certificate
\* release of the cleanup fails, and then the release's code is returned.
C7_MismatchCodeUnlessReleaseFails ==
    /\ (pc \in LabelSet /\ Failed("verify_server_id")) =>
            retval = ERROR_SERVER_ID_MISMATCH
    /\ (pc \in LabelSet /\ Failed("verify_server_pubkey")) =>
            retval = ERROR_SERVER_KEY_MISMATCH
    /\ (pc = "returned" /\ ResponseInScope) =>
            /\ ~PinnedIdReceived =>
                    retval = AfterReleases(ERROR_SERVER_ID_MISMATCH)
            /\ (PinnedIdReceived /\ ~PinnedKeyReceived) =>
                    retval = AfterReleases(ERROR_SERVER_KEY_MISMATCH)

\* id and key both differ and the id's code came back
C7_Witness ==
    /\ pc = "returned"
    /\ ResponseInScope
    /\ ~PinnedIdReceived
    /\ ~PinnedKeyReceived
    /\ retval = ERROR_SERVER_ID_MISMATCH

\* C8: when agentd_connection_init returns a non-zero code, everything it
\* initialised has been disposed or released: socket, shared secret,
\* nonces, received key buffer, response buffer and both certificates.
C8_FailureReleasesEverything ==
    (pc = "returned" /\ retval # STATUS_SUCCESS) =>
        \A r \in Resources : acq[r] = 1 => rel[r] >= 1

\* a failure after the acknowledgement response had been received
C8_Witness ==
    /\ pc = "returned"
    /\ retval # STATUS_SUCCESS
    /\ \A r \in Resources : acq[r] = 1 /\ rel[r] >= 1

CallerOwned == {"sock", "shared_secret", "cert"}

\* C9: when agentd_connection_init returns STATUS_SUCCESS the socket, the
\* shared secret and the client private certificate are initialised and
\* not released, and every intermediate (nonces, received key buffer,
\* acknowledgement response, server public certificate) has been released.
C9_SuccessLeavesSessionToCaller ==
    (pc = "returned" /\ retval = STATUS_SUCCESS) =>
        /\ \A r \in CallerOwned : acq[r] = 1 /\ rel[r] = 0
        /\ \A r \in Resources \ CallerOwned : acq[r] = 1 /\ rel[r] = 1

C9_Witness ==
    /\ pc = "returned"
    /\ retval = STATUS_SUCCESS
    /\ success
    /\ rel["server_cert"] = 1
    /\ rel["response"] = 1
    /\ rel["sock"] = 0

AckReceived == Succeeded("recv_handshake_ack") /\ pc # "session"

AckGood ==
    /\ Len(response.hdr) >= 3
    /\ response.hdr[1] = PROTOCOL_REQ_ID.HANDSHAKE_ACKNOWLEDGE
    /\ response.hdr[3] = 0

\* C10 as claimed: STATUS_SUCCESS only for an acknowledgement response
\* with request_id HANDSHAKE_ACKNOWLEDGE and status 0; a header that does
\* not decode gives ERROR_DECODE_HANDSHAKE_ACK, another request id
\* ERROR_HANDSHAKE_ACK_REQUEST_ID, a non-zero status
\* ERROR_HANDSHAKE_ACK_STATUS.
C10_AckCodesReturned ==
    /\ (pc = "returned" /\ retval = STATUS_SUCCESS) =>
            AckReceived /\ AckGood
    /\ (pc = "returned" /\ AckReceived) =>
            IF Len(response.hdr) < 3
            THEN retval = ERROR_DECODE_HANDSHAKE_ACK
            ELSE IF response.hdr[1] # PROTOCOL_REQ_ID.HANDSHAKE_ACKNOWLEDGE
            THEN retval = ERROR_HANDSHAKE_ACK_REQUEST_ID
            ELSE response.hdr[3] # 0 => retval = ERROR_HANDSHAKE_ACK_STATUS

\* C10 as amended: the same, but a non-zero code is the one returned only
\* if the certificate releases of the cleanup succeed; when one fails the
\* release's code is returned instead.
C10_AckCodesUnlessReleaseFails ==
    /\ (pc = "returned" /\ retval = STATUS_SUCCESS) =>
            AckReceived /\ AckGood
    /\ (pc = "returned" /\ AckReceived) =>
            IF Len(response.hdr) < 3
            THEN retval = AfterReleases(ERROR_DECODE_HANDSHAKE_ACK)
            ELSE IF response.hdr[1] # PROTOCOL_REQ_ID.HANDSHAKE_ACKNOWLEDGE
            THEN retval = AfterReleases(ERROR_HANDSHAKE_ACK_REQUEST_ID)
            ELSE response.hdr[3] # 0 =>
                    retval = AfterReleases(ERROR_HANDSHAKE_ACK_STATUS)

\* an acknowledgement response with the right request id and status 1
C10_Witness ==
    /\ pc = "returned"
    /\ AckReceived
    /\ Len(response.hdr) >= 3
    /\ response.hdr[1] = PROTOCOL_REQ_ID.HANDSHAKE_ACKNOWLEDGE
    /\ response.hdr[3] # 0
    /\ retval = ERROR_HANDSHAKE_ACK_STATUS

\* C11: agentd_connection_init succeeds only if the acknowledgement
\* response header carries offset 0; request_id HANDSHAKE_ACKNOWLEDGE and
\* status 0 with a non-zero offset make it fail.
C11_AckOffsetMustBeZero ==
    (pc = "returned" /\ AckReceived /\ Len(response.hdr) >= 3
        /\ response.hdr[2] # 0) => retval # STATUS_SUCCESS

\* C12: a handshake response with a non-zero status is a handshake
\* failure: no acknowledgement is sent and the handshake does not succeed.
C12_ResponseStatusMustBeZero ==
    (ResponseInScope /\ hs_status # STATUS_SUCCESS) =>
        /\ ~Attempted("send_handshake_ack")
        /\ ~(pc = "returned" /\ retval = STATUS_SUCCESS)

\* the request id each helper of the table expects in its response
ExpectedRequestId ==
    [k \in Helpers |->
        IF k \in DOMAIN KindOfHelper THEN PROTOCOL_REQ_ID[KindOfHelper[k]]
        ELSE PROTOCOL_REQ_ID.TRANSACTION_SUBMIT]

\* the codes a helper has for its failure causes
CauseCodes(k) ==
    LET row == HelperTable[k]
    IN  << row.send, row.recv, row.decode, row.request_id, row.status,
           row.offset_code >>
        \o (IF row.decodes_body THEN << row.body >> ELSE << >>)

HeaderDecoded == Len(io) = 2 /\ io[2].ok /\ Len(resp.hdr) >= 3

\* C13: within each helper the failure causes (send, receive, header
\* decode, request id, status, offset, body decode) have pairwise distinct
\* non-zero codes, so a returned code tells which cause occurred.
C13_CodeIdentifiesCause ==
    /\ \A k \in Helpers :
          \A i, j \in 1..Len(CauseCodes(k)) :
              /\ CauseCodes(k)[i] # STATUS_SUCCESS
              /\ i # j => CauseCodes(k)[i] # CauseCodes(k)[j]
    /\ (HelperReturned /\ hret # STATUS_SUCCESS) =>
          LET row == HelperTable[kind]
          IN  /\ \E i \in 1..Len(CauseCodes(kind)) :
                    hret = CauseCodes(kind)[i]
              /\ hret = row.send => ~io[1].ok
              /\ hret = row.recv => Len(io) = 2 /\ ~io[2].ok
              /\ hret = row.decode =>
                    Len(io) = 2 /\ io[2].ok /\ Len(resp.hdr) < 3
              /\ hret = row.request_id =>
                    HeaderDecoded /\ resp.hdr[1] # ExpectedRequestId[kind]
              /\ hret = row.status => HeaderDecoded /\ resp.hdr[3] # 0
              /\ hret = row.offset_code =>
                    HeaderDecoded /\ resp.hdr[2] # sent_offset
              /\ (row.decodes_body /\ hret = row.body) =>
                    HeaderDecoded /\ ~decode_body_ok(kind, resp)

\* get_and_verify_prev_txn_id returned its offset code for a wrong offset
C13_Witness ==
    /\ HelperReturned
    /\ kind = "get_and_verify_prev_txn_id"
    /\ hret = ERROR_PREV_TXN_ID_OFFSET
    /\ HeaderDecoded
    /\ resp.hdr[2] # sent_offset

\* C14: a standard helper checks request_id, then status, then offset,
\* and the first failing check decides the code: a response with
\* request_id and offset swapped gets the wrong-request-id code whatever
\* its status and offset; right request id, status 0 and a wrong offset
\* get the offset-mismatch code.
C14_HeaderChecksInOrder ==
    (HelperReturned /\ kind \in DOMAIN KindOfHelper /\ HeaderDecoded) =>
        LET row == HelperTable[kind]
            idok == resp.hdr[1] = ExpectedRequestId[kind]
        IN  /\ ~idok => hret = row.request_id
            /\ (idok /\ resp.hdr[3] # 0) => hret = row.status
            /\ (idok /\ resp.hdr[3] = 0 /\ resp.hdr[2] # sent_offset) =>
                    hret = row.offset_code

\* send_and_verify_close_connection got request_id and offset swapped
C14_Witness ==
    /\ HelperReturned
    /\ kind = "send_and_verify_close_connection"
    /\ HeaderDecoded
    /\ resp.hdr[1] = sent_offset
    /\ resp.hdr[2] = ExpectedRequestId[kind]
    /\ resp.hdr[1] # resp.hdr[2]
    /\ hret = ERROR_CLOSE_REQUEST_ID

\* C15: get_and_verify_block sends offset 0x1234; a response with
\* request_id BLOCK_BY_ID_GET, status 0 and another offset makes it return
\* ERROR_GET_BLOCK_OFFSET without decoding or returning the block.
C15_BlockOffsetMismatchCode ==
    (HelperReturned /\ kind = "get_and_verify_block" /\ HeaderDecoded
        /\ resp.hdr[1] = PROTOCOL_REQ_ID.BLOCK_BY_ID_GET
        /\ resp.hdr[3] = 0 /\ resp.hdr[2] # 4660) =>
        /\ sent_offset = 4660
        /\ hret = ERROR_GET_BLOCK_OFFSET
        /\ out = exch.out

\* the sentinel's log entry i is a receive of a request it decoded
DecodedClientReq(i) ==
    /\ slog[i].ev = "recv"
    /\ decode_header_ok(slog[i].msg)
    /\ slog[i].msg.hdr[1] = PROTOCOL_REQ_ID.EXTENDED_API_CLIENTREQ
    /\ Len(slog[i].msg.body) = 4

\* C16 as claimed: every CLIENTREQ the sentinel received and decoded is
\* followed by exactly one SENDRESP, carrying the offset decoded from it,
\* and no SENDRESP is sent for anything else.
C16_OneRespPerClientReq ==
    \A i \in 1..Len(slog) :
        /\ DecodedClientReq(i) =>
                /\ i < Len(slog)
                /\ slog[i + 1].ev = "send"
                /\ slog[i + 1].resp.offset = slog[i].msg.body[3]
                /\ (i + 1 < Len(slog)) => slog[i + 2].ev # "send"
        /\ slog[i].ev = "send" => (i > 1 /\ DecodedClientReq(i - 1))

\* C16 as amended: the same, unless the response body buffer cannot be
\* allocated; then the dispatch returns
\* ERROR_READ_EXTENDED_API_OUT_OF_MEMORY and sends nothing.
C16_OneRespPerClientReqUnlessNoMemory ==
    \A i \in 1..Len(slog) :
        /\ DecodedClientReq(i) =>
                \/ /\ i < Len(slog)
                   /\ slog[i + 1].ev = "send"
                   /\ slog[i + 1].resp.offset = slog[i].msg.body[3]
                   /\ (i + 1 < Len(slog)) => slog[i + 2].ev # "send"
                \/ /\ i = Len(slog)
                   /\ spc = "returned"
                   /\ sretval =
                        UNLISTED_CODE.ERROR_READ_EXTENDED_API_OUT_OF_MEMORY
        /\ slog[i].ev = "send" => (i > 1 /\ DecodedClientReq(i - 1))

\* the sentinel answered the pings of both callers, each with its token
C16_Witness ==
    /\ Len(slog) >= 6
    /\ \E i, j \in 1..Len(slog) :
          /\ slog[i].ev = "send" /\ slog[i].resp.offset = Token(1, 5)
          /\ slog[j].ev = "send" /\ slog[j].resp.offset = Token(2, 5)
    /\ \E i \in 1..Len(slog) :
          slog[i].ev = "recv" /\ ~DecodedClientReq(i)

\* C17: every CLIENTREQ delivered to the sentinel is serviced whatever the
\* interleaving: a CLIENTREQ that arrives where the acknowledgement of the
\* previous SENDRESP is awaited does not end the sentinel with the
\* bad-request-id code.
C17_ClientReqNeverBadRequestId ==
    (spc = "returned" /\ slog # << >>
        /\ decode_header_ok(slog[Len(slog)].msg)
        /\ slog[Len(slog)].msg.hdr[1] =
                PROTOCOL_REQ_ID.EXTENDED_API_CLIENTREQ) =>
        sretval # UNLISTED_CODE.ERROR_READ_EXTENDED_API_BAD_REQUEST_ID

\* C18: every ping sent is eventually answered: the caller's helper
\* returns STATUS_SUCCESS for a response with request_id
\* EXTENDED_API_SENDRECV, the offset it sent and status 0.
C18_EveryPingAnswered ==
    \A c \in Callers :
        (cpc[c] = "await") ~> (cpc[c] = "returned" /\ cret[c] = STATUS_SUCCESS)

\* the calls of main that send or receive on the session
SessionKinds == {"handshake", "helper", "ping", "dispatch", "send", "recv"}

FailedSessionCall(i) ==
    ptrace[i].kind \in SessionKinds /\ ptrace[i].code # STATUS_SUCCESS

\* C19: in every example program, once the handshake or a helper call (or
\* an inline send or receive, a receive of a tampered frame included)
\* returns an error, nothing more is sent or received on the session:
\* the failed call is the last call main makes, control is in the cleanup
\* chain, and the program exits non-zero.
C19_ErrorEndsTheSession ==
    \A i \in 1..Len(ptrace) :
        FailedSessionCall(i) =>
            /\ \A j \in (i + 1)..Len(ptrace) : ptrace[j].io = << >>
            /\ i = Len(ptrace)
            /\ ppc \in {"cleanup", "exited"}
            /\ ppc = "exited" => pretval # STATUS_SUCCESS

\* submit_multiple_txns exited after the receive of a transaction read
\* failed, three submissions having gone over the session before
C19_Witness ==
    /\ prog = "submit_multiple_txns"
    /\ ppc = "exited"
    /\ pretval # STATUS_SUCCESS
    /\ ptrace # << >>
    /\ ptrace[Len(ptrace)].fn = "get_and_verify_txn"
    /\ ptrace[Len(ptrace)].code = ERROR_RECV_TXN_RESP
    /\ ptrace[Len(ptrace)].io = << "send", "recv" >>
    /\ \E i \in 1..Len(ptrace) : ptrace[i].fn = "submit_and_verify_txn"

StepsSucceeded == \A i \in 1..Len(ptrace) : ptrace[i].code = STATUS_SUCCESS

ReleasesSucceeded ==
    \A i \in 1..Len(preleased) : preleased[i].code = STATUS_SUCCESS

\* the helpers of the recipe: one per message kind
HelperKinds == {"helper", "ping"}

\* C20: a program exits 0 exactly when every setup step, the handshake,
\* every helper call, every comparison and every release of the cleanup
\* succeeded (and then main ran through all its steps); when the last call
\* was a helper that failed and the releases succeeded, the exit code is
\* the code the helper returned.
C20_ExitCodeTellsOutcome ==
    ppc = "exited" =>
        /\ pretval = STATUS_SUCCESS <=> (StepsSucceeded /\ ReleasesSucceeded)
        /\ pretval = STATUS_SUCCESS =>
                /\ pstep = Len(Programs[prog].steps)
                /\ Len(ptrace) >= Len(Programs[prog].steps)
        /\ ( /\ ptrace # << >>
             /\ ptrace[Len(ptrace)].kind \in HelperKinds
             /\ ptrace[Len(ptrace)].code # STATUS_SUCCESS
             /\ ReleasesSucceeded ) =>
                pretval = ptrace[Len(ptrace)].code

\* ping_client exited with the code of the close helper, which met a
\* non-zero status after a ping that succeeded; every release succeeded
C20_Witness ==
    /\ prog = "ping_client"
    /\ ppc = "exited"
    /\ ReleasesSucceeded
    /\ Len(preleased) = 4
    /\ Len(ptrace) = Len(ping_client.steps)
    /\ ptrace[Len(ptrace)].fn = "send_and_verify_close_connection"
    /\ ptrace[Len(ptrace)].code = ERROR_CLOSE_STATUS
    /\ pretval = ERROR_CLOSE_STATUS

\* C21: submit_and_verify_txn returns STATUS_SUCCESS if and only if the
\* send succeeded, the receive succeeded, the header decoded, request_id
\* is TRANSACTION_SUBMIT, status is 0 and offset is 0x1337 (4919); what
\* follows the header does not matter: with any other body the checks
\* give the same code.
C21_SubmitDependsOnHeaderOnly ==
    (HelperReturned /\ kind = "submit_and_verify_txn") =>
        /\ hret = STATUS_SUCCESS <=>
                /\ Len(io) = 2
                /\ io[1].ok
                /\ io[2].ok
                /\ Len(resp.hdr) >= 3
                /\ resp.hdr[1] = PROTOCOL_REQ_ID.TRANSACTION_SUBMIT
                /\ resp.hdr[3] = STATUS_SUCCESS
                /\ resp.hdr[2] = 4919
        /\ (Len(io) = 2 /\ io[2].ok) =>
                \A b \in Bodies(kind) :
                    HelperVerify(kind, sent_offset, [resp EXCEPT !.body = b])
                        = hret

\* submit_and_verify_txn returned STATUS_SUCCESS for a response that
\* carries a body after a good header
C21_Witness ==
    /\ HelperReturned
    /\ kind = "submit_and_verify_txn"
    /\ hret = STATUS_SUCCESS
    /\ resp.hdr = << PROTOCOL_REQ_ID.TRANSACTION_SUBMIT, 4919, STATUS_SUCCESS >>
    /\ resp.body # << >>

(***************************************************************************)
(* The local functions: helpers and configuration readers that work on     *)
(* their arguments alone.  Each behaviour of SpecLocal calls one of them   *)
(* once, with arguments drawn from bounded sets; the session, the helper   *)
(* calls, the ping parties and the programs stay idle.                     *)
(***************************************************************************)
MaxEntries == 2

ByteStrings == PubKeys

\* Sequences of at most n elements of S.
SeqUpTo(S, n) == UNION { [1..k -> S] : k \in 0..n }

\* What the certificate parser yields for a block certificate: whether
\* vccert_parser_init accepts it, the wrapped-transaction-tuple fields that
\* find_short and find_next return in order, and how the sequence ends
\* (field not found, or a parser error).
BlockCerts ==
    [init_ok : BOOLEAN,
     entries : SeqUpTo(ByteStrings, MaxEntries),
     ends : {"not_found", "error"}]

EntryMatches_SizeOnly(txn_bytes, txn_cert) == Len(txn_bytes) = Len(txn_cert)

EntryMatches(txn_bytes, txn_cert) ==
    /\ Len(txn_bytes) = Len(txn_cert)
    /\ crypto_memcmp(txn_bytes, txn_cert, Len(txn_bytes)) = 0

RECURSIVE FindFrom(_, _, _)
FindFrom(block, txn_cert, i) ==
    IF i > Len(block.entries) THEN 241
    ELSE IF EntryMatches(block.entries[i], txn_cert) THEN STATUS_SUCCESS
    ELSE FindFrom(block, txn_cert, i + 1)

find_transaction_in_block(block, txn_cert) ==
    IF ~block.init_ok THEN 240 ELSE FindFrom(block, txn_cert, 1)

FindTransactionInBlock ==
    /\ lfn = "none"
    /\ \E block \in BlockCerts, txn_cert \in ByteStrings :
          /\ lfn' = "find_transaction_in_block"
          /\ larg' = [block |-> block, txn_cert |-> txn_cert]
          /\ lret' = find_transaction_in_block(block, txn_cert)
    /\ UNCHANGED << hsvars, ivvars, helpervars, pingvars, progvars >>

(***************************************************************************)
(* The certificate loaders, step by step.  The two loaders differ in their *)
(* error codes and in the decoder they call.                               *)
(***************************************************************************)
Loaders == {"private", "public"}

\* What the file system, the allocator and the decoder answer when asked.
LoaderOutcomes ==
    { o \in [stat : BOOLEAN, file_size : 0..MaxKeyLen, buffer : BOOLEAN,
             open : BOOLEAN, read_ok : BOOLEAN, read_bytes : 0..MaxKeyLen,
             decode : BOOLEAN] : o.read_bytes <= o.file_size }

LoaderCode(loader, step) ==
    IF loader = "private"
    THEN entity_private_certificate_create_from_file(step)
    ELSE entity_public_certificate_create_from_file(step)

ReadFailed_ShortAccepted(o) == ~o.read_ok

ReadFailed(o) == ~o.read_ok \/ o.read_bytes # o.file_size

LoaderCleanup_CloseAtBuf(label) ==
    CASE label = "cleanup_fd" -> << "close", "dispose" >>
      [] label = "cleanup_buf" -> << "close", "dispose" >>
      [] label = "done" -> << >>

LoaderCleanup(label) ==
    CASE label = "cleanup_fd" -> << "close", "dispose" >>
      [] label = "cleanup_buf" -> << "dispose" >>
      [] label = "done" -> << >>

\* The loader's return value and the calls it made, in order.
certificate_create_from_file(loader, o) ==
    LET Leave(calls, step, label) ==
            [retval |-> LoaderCode(loader, step),
             ops |-> calls \o LoaderCleanup(label)]
    IN  IF ~o.stat
        THEN Leave(<< "file_stat" >>, "stat", "done")
        ELSE IF ~o.buffer
        THEN Leave(<< "file_stat", "buffer_init" >>, "buffer", "done")
        ELSE IF ~o.open
        THEN Leave(<< "file_stat", "buffer_init", "file_open" >>,
                   "open", "cleanup_buf")
        ELSE IF ReadFailed(o)
        THEN Leave(<< "file_stat", "buffer_init", "file_open",
                      "file_read" >>, "read", "cleanup_fd")
        ELSE IF ~o.decode
        THEN Leave(<< "file_stat", "buffer_init", "file_open",
                      "file_read", "decode" >>, "parse", "cleanup_fd")
        ELSE Leave(<< "file_stat", "buffer_init", "file_open",
                      "file_read", "decode" >>, "none", "cleanup_fd")

CertificateCreateFromFile ==
    /\ lfn = "none"
    /\ \E loader \in Loaders, o \in LoaderOutcomes :
          /\ lfn' = "certificate_create_from_file"
          /\ larg' = [loader |-> loader, o |-> o]
          /\ lret' = certificate_create_from_file(loader, o)
    /\ UNCHANGED << hsvars, ivvars, helpervars, pingvars, progvars >>

(***************************************************************************)
(* The comparisons submit_multiple_txns makes on what the agent reported   *)
(* for its three transactions.                                             *)
(***************************************************************************)
LinkCheck(var, expect, code) == [var |-> var, expect |-> expect, code |-> code]

\* The link and artifact comparisons, in the order main makes them: nine on
\* the answers to TRANSACTION_BY_ID_GET, four on the answers to the
\* next-id and prev-id queries.
LinkChecks ==
    << LinkCheck("prev_txn1_id", "zero_uuid", ERROR_TXN1_PREV_ID_MISMATCH),
       LinkCheck("next_txn1_id", "txn2_id", ERROR_TXN1_NEXT_ID_MISMATCH),
       LinkCheck("txn1_artifact_id", "artifact_id",
                 ERROR_TXN1_ARTIFACT_ID_MISMATCH),
       LinkCheck("prev_txn2_id", "txn1_id", ERROR_TXN2_PREV_ID_MISMATCH),
       LinkCheck("next_txn2_id", "txn3_id", ERROR_TXN2_NEXT_ID_MISMATCH),
       LinkCheck("txn2_artifact_id", "artifact_id",
                 ERROR_TXN1_ARTIFACT_ID_MISMATCH),
       LinkCheck("prev_txn3_id", "txn2_id", ERROR_TXN3_PREV_ID_MISMATCH),
       LinkCheck("next_txn3_id", "ff_uuid", ERROR_TXN3_NEXT_ID_MISMATCH),
       LinkCheck("txn3_artifact_id", "artifact_id",
                 ERROR_TXN3_ARTIFACT_ID_MISMATCH),
       LinkCheck("next_txn1_id", "txn2_id", ERROR_TXN1_NEXT_ID_MISMATCH2),
       LinkCheck("next_txn2_id", "txn3_id", ERROR_TXN2_NEXT_ID_MISMATCH2),
       LinkCheck("prev_txn3_id", "txn2_id", ERROR_TXN3_PREV_ID_MISMATCH2),
       LinkCheck("prev_txn2_id", "txn1_id", ERROR_TXN2_PREV_ID_MISMATCH2) >>

BlockIdCodes ==
    << ERROR_TXN1_BLOCK_ID_MISMATCH, ERROR_TXN2_BLOCK_ID_MISMATCH,
       ERROR_TXN3_BLOCK_ID_MISMATCH >>

BlockIds == {"block_a", "block_b"}

IdValues ==
    {"zero_uuid", "ff_uuid", "txn1_id", "txn2_id", "txn3_id", "artifact_id"}

ExpectedLinks == [i \in 1..Len(LinkChecks) |-> LinkChecks[i].expect]

\* What the agent reported: the value main compares at each link check (at
\* most one of them is not the expected one), and for each transaction the
\* block id in the answer to TRANSACTION_BY_ID_GET (block_id) and in the
\* answer to TRANSACTION_ID_GET_BLOCK_ID (block_id2).
Reports ==
    [seen : {ExpectedLinks}
            \cup { [ExpectedLinks EXCEPT ![i] = w] :
                     i \in 1..Len(LinkChecks), w \in IdValues },
     block_id : [1..3 -> BlockIds],
     block_id2 : [1..3 -> BlockIds]]

BlockIdMismatch_Ignored(v, n) == FALSE

BlockIdMismatch(v, n) == v.block_id[n] # v.block_id2[n]

RECURSIVE verify_block_ids(_, _)
verify_block_ids(v, n) ==
    IF n > 3 THEN STATUS_SUCCESS
    ELSE IF BlockIdMismatch(v, n) THEN BlockIdCodes[n]
    ELSE verify_block_ids(v, n + 1)

RECURSIVE verify_links(_, _)
verify_links(v, i) ==
    IF i > Len(LinkChecks) THEN verify_block_ids(v, 1)
    ELSE IF v.seen[i] # LinkChecks[i].expect THEN LinkChecks[i].code
    ELSE verify_links(v, i + 1)

SubmitMultipleTxnsChecks ==
    /\ lfn = "none"
    /\ \E v \in Reports :
          /\ lfn' = "submit_multiple_txns"
          /\ larg' = v
          /\ lret' = verify_links(v, 1)
    /\ UNCHANGED << hsvars, ivvars, helpervars, pingvars, progvars >>

(***************************************************************************)
(* get_payload_size of ping_sentinel.  The widest unsigned integer is      *)
(* scaled down to 12 bits; size_t is as wide as uintmax_t.                 *)
(***************************************************************************)
MaxDigits == 4

UINTMAX_MAX == 4095

SIZE_MAX == UINTMAX_MAX

ERANGE == 34

DigitStrings == UNION { [1..n -> {0, 1, 2, 4, 9}] : n \in 0..MaxDigits }

\* The values of PING_SENTINEL_PAYLOAD_SIZE: an optional sign, decimal
\* digits, and possibly characters that are not digits after them.
EnvTexts == [sign : {"", "+", "-"}, digits : DigitStrings, rest : BOOLEAN]

\* The number a string of decimal digits denotes.
RECURSIVE Decimal(_)
Decimal(digits) ==
    IF digits = << >> THEN 0
    ELSE 10 * Decimal(SubSeq(digits, 1, Len(digits) - 1))
         + digits[Len(digits)]

\* strtoumax(str, NULL, 10): 0 when there is no digit, UINTMAX_MAX and
\* ERANGE when the number does not fit, the negation in the unsigned type
\* after a minus sign; what follows the digits is not looked at.
strtoumax(text) ==
    LET n == Decimal(text.digits)
    IN  IF text.digits = << >> THEN [value |-> 0, errno |-> 0]
        ELSE IF n > UINTMAX_MAX THEN [value |-> UINTMAX_MAX, errno |-> ERANGE]
        ELSE IF text.sign = "-"
        THEN [value |-> (UINTMAX_MAX + 1 - n) % (UINTMAX_MAX + 1), errno |-> 0]
        ELSE [value |-> n, errno |-> 0]

get_payload_size_NoDefault(set, text) ==
    IF ~set THEN 1 ELSE strtoumax(text).value % (SIZE_MAX + 1)

get_payload_size(set, text) ==
    IF ~set THEN 1
    ELSE LET r == strtoumax(text)
             size == r.value % (SIZE_MAX + 1)
         IN  IF 0 = size \/ 0 # r.errno THEN 1 ELSE size

\* main reads the size once and answers a ping with a body of that size.
GetPayloadSize ==
    /\ lfn = "none"
    /\ \E set \in BOOLEAN, text \in EnvTexts :
          LET size == get_payload_size(set, text)
          IN  /\ lfn' = "get_payload_size"
              /\ larg' = [set |-> set, text |-> text]
              /\ lret' = [size |-> size,
                          dispatch |-> SentinelDispatch(
                              ClientRequest(1, VERB_PING, 5), size, TRUE, TRUE)]
    /\ UNCHANGED << hsvars, ivvars, helpervars, pingvars, progvars >>

(***************************************************************************)
(* Serialization.  Integers travel big-endian, four bytes for a 32-bit     *)
(* word; a message is its three header words followed by its body.         *)
(***************************************************************************)
\* 32-bit words with every byte pattern of interest in each position; the
\* most significant byte stays below 128.
Words32 ==
    { ((b1 * 256 + b2) * 256 + b3) * 256 + b4 :
        b1 \in {0, 1, 127}, b2 \in {0, 1, 255}, b3 \in {0, 1, 255},
        b4 \in {0, 1, 255} }

encode_u32(x) ==
    << x \div 16777216, (x \div 65536) % 256, (x \div 256) % 256, x % 256 >>

decode_u32_LittleEndian(b) == ((b[4] * 256 + b[3]) * 256 + b[2]) * 256 + b[1]

decode_u32(b) == ((b[1] * 256 + b[2]) * 256 + b[3]) * 256 + b[4]

ping_protocol_encode_req_ping(offset) == encode_u32(offset)

ping_protocol_decode_req_ping(payload) ==
    IF Len(payload) # 4
    THEN [status |-> 1, offset |-> 0]
    ELSE [status |-> STATUS_SUCCESS, offset |-> decode_u32(payload)]

\* A message as the helpers see it, and as bytes.
EncodableMessages ==
    [hdr : {PROTOCOL_REQ_ID.STATUS_GET, PROTOCOL_REQ_ID.EXTENDED_API_SENDRECV}
           \X {5, 4919} \X {STATUS_SUCCESS, 257},
     body : {<< >>} \cup ByteStrings]

encode_message(m) ==
    encode_u32(m.hdr[1]) \o encode_u32(m.hdr[2]) \o encode_u32(m.hdr[3])
    \o m.body

decode_message(bytes) ==
    IF Len(bytes) < 4 * HEADER_WORDS
    THEN [status |-> 1, msg |-> NoValue]
    ELSE [status |-> STATUS_SUCCESS,
          msg |-> [hdr |-> << decode_u32(SubSeq(bytes, 1, 4)),
                              decode_u32(SubSeq(bytes, 5, 8)),
                              decode_u32(SubSeq(bytes, 9, 12)) >>,
                   body |-> SubSeq(bytes, 13, Len(bytes))]]

\* A ping request is encoded and the bytes are decoded again.
PingRequestRoundTrip ==
    /\ lfn = "none"
    /\ \E offset \in Words32 :
          /\ lfn' = "ping_protocol_req_ping"
          /\ larg' = offset
          /\ lret' = [bytes |-> ping_protocol_encode_req_ping(offset),
                      decoded |-> ping_protocol_decode_req_ping(
                                      ping_protocol_encode_req_ping(offset))]
    /\ UNCHANGED << hsvars, ivvars, helpervars, pingvars, progvars >>

\* A message is encoded and the bytes are decoded again.
MessageRoundTrip ==
    /\ lfn = "none"
    /\ \E m \in EncodableMessages :
          /\ lfn' = "message"
          /\ larg' = m
          /\ lret' = [bytes |-> encode_message(m),
                      decoded |-> decode_message(encode_message(m))]
    /\ UNCHANGED << hsvars, ivvars, helpervars, pingvars, progvars >>

\* the responses send_and_verify_ping_request(offset) may read: every
\* combination of a right or wrong request id, status and offset, and a
\* response too short for a header
PingHeaderCases(offset) ==
    { [hdr |-> << >>, body |-> << >>] }
    \cup { [hdr |-> << id, o, s >>, body |-> << 0 >>] :
             id \in {PROTOCOL_REQ_ID.EXTENDED_API_SENDRECV,
                     PROTOCOL_REQ_ID.EXTENDED_API_SENDRESP},
             o \in {offset, offset + 1},
             s \in {STATUS_SUCCESS,
                    UNLISTED_CODE.ERROR_READ_EXTENDED_API_INVALID_VERB} }

\* send_and_verify_ping_request from the response it received to its return
SendAndVerifyPingRequestChecks ==
    /\ lfn = "none"
    /\ \E offset \in {OffsetCtr(i) : i \in 0..MaxRounds} :
        \E r \in PingHeaderCases(offset) :
          /\ lfn' = "send_and_verify_ping_request"
          /\ larg' = [offset |-> offset, r |-> r]
          /\ lret' = [retval |-> PingVerify(offset, r),
                      calls |-> PingDecodes(offset, r)]
    /\ UNCHANGED << hsvars, ivvars, helpervars, pingvars, progvars >>

\* the offset test_get_latest_block_empty sends its request with
EXPECTED_OFFSET == 4919

\* vccert_certificate_type_uuid_root_block
ROOT_BLOCK_UUID == "root_block"

\* the responses test_get_latest_block_empty may read
LatestBlockResponses ==
    { [hdr |-> << >>, body |-> << >>] }
    \cup { [hdr |-> << id, o, s >>, body |-> b] :
             id \in {PROTOCOL_REQ_ID.LATEST_BLOCK_ID_GET,
                     PROTOCOL_REQ_ID.BLOCK_BY_ID_GET},
             o \in {EXPECTED_OFFSET, EXPECTED_OFFSET + 1},
             s \in {STATUS_SUCCESS, 1},
             b \in {<< >>, << ROOT_BLOCK_UUID >>, << "other_block" >>} }

\* main of test_get_latest_block_empty from the response it received to
\* the code it reaches its cleanup chain with
LatestBlockEmptyVerify(r) ==
    IF ~decode_header_ok(r) THEN 202
    ELSE IF PROTOCOL_REQ_ID.LATEST_BLOCK_ID_GET # header_request_id(r)
    THEN 203
    ELSE IF STATUS_SUCCESS # header_status(r) THEN 204
    ELSE IF Len(r.body) # 1 THEN 205
    ELSE IF r.body[1] # ROOT_BLOCK_UUID THEN 206
    ELSE 0

TestGetLatestBlockEmptyChecks ==
    /\ lfn = "none"
    /\ \E r \in LatestBlockResponses :
          /\ lfn' = "test_get_latest_block_empty"
          /\ larg' = [offset |-> EXPECTED_OFFSET, r |-> r]
          /\ lret' = [retval |-> LatestBlockEmptyVerify(r)]
    /\ UNCHANGED << hsvars, ivvars, helpervars, pingvars, progvars >>

InitLocal ==
    /\ pc = "main"
    /\ success = FALSE
    /\ retval = STATUS_SUCCESS
    /\ acq = [r \in Resources |-> 0]
    /\ rel = [r \in Resources |-> 0]
    /\ nonnull = {"shared_secret", "sock", "cert"}
    /\ server_id = NoValue
    /\ server_pubkey = NoValue
    /\ server_id_from_server = NoValue
    /\ server_pubkey_from_server = NoValue
    /\ hs_status = STATUS_SUCCESS
    /\ shared_secret_size = 0
    /\ response = NoValue
    /\ release_retval =
          [server_cert |-> STATUS_SUCCESS, cert |-> STATUS_SUCCESS]
    /\ client_iv = INITIAL_IV
    /\ server_iv = INITIAL_IV
    /\ hlog = << >>
    /\ hpc = "idle"
    /\ kind = "none"
    /\ sent_offset = 0
    /\ resp = NoValue
    /\ io = << >>
    /\ hret = STATUS_SUCCESS
    /\ out = Unset
    /\ ncalls = 0
    /\ nfailed = 0
    /\ exch = NoExchange
    /\ PingIdle
    /\ ProgIdle
    /\ LocalIdle

NextLocal ==
    \/ FindTransactionInBlock
    \/ CertificateCreateFromFile
    \/ SubmitMultipleTxnsChecks
    \/ GetPayloadSize
    \/ PingRequestRoundTrip
    \/ MessageRoundTrip
    \/ SendAndVerifyPingRequestChecks
    \/ TestGetLatestBlockEmptyChecks

SpecLocal == InitLocal /\ [][NextLocal]_vars

\* No byte was sent or received and the session is as it was before the
\* local call.
SessionUntouched ==
    /\ io = << >>
    /\ hlog = << >>
    /\ hpc = "idle"
    /\ client_iv = INITIAL_IV
    /\ server_iv = INITIAL_IV
    /\ sent_offset = 0
    /\ ncalls = 0
    /\ pc = "main"

(***************************************************************************)
(* C22: find_transaction_in_block returns STATUS_SUCCESS exactly when the  *)
(* parser accepts the block certificate and some entry of its              *)
(* wrapped-transaction-tuple sequence has the size and the bytes of the    *)
(* target transaction certificate; without entries, without a matching     *)
(* entry or on a parser error it returns a non-zero code; it sends and     *)
(* receives nothing and leaves the session as it was.                      *)
(***************************************************************************)
C22_FindIsLocalByteSearch ==
    lfn = "find_transaction_in_block" =>
        /\ lret = STATUS_SUCCESS <=>
              /\ larg.block.init_ok
              /\ \E i \in 1..Len(larg.block.entries) :
                    /\ Len(larg.block.entries[i]) = Len(larg.txn_cert)
                    /\ larg.block.entries[i] = larg.txn_cert
        /\ lret # STATUS_SUCCESS => lret \in {240, 241}
        /\ SessionUntouched

C22_Witness ==
    /\ lfn = "find_transaction_in_block"
    /\ lret = STATUS_SUCCESS
    /\ Len(larg.block.entries) = 2
    /\ larg.block.entries[1] # larg.txn_cert
    /\ Len(larg.block.entries[1]) = Len(larg.txn_cert)
    /\ larg.block.entries[2] = larg.txn_cert

LoaderSteps == << "stat", "buffer", "open", "read", "parse" >>

\* The steps of a loader that fail when they are asked.
LoaderFailing(o) ==
    { i \in 1..5 :
        \/ i = 1 /\ ~o.stat
        \/ i = 2 /\ ~o.buffer
        \/ i = 3 /\ ~o.open
        \/ i = 4 /\ (~o.read_ok \/ o.read_bytes < o.file_size)
        \/ i = 5 /\ ~o.decode }

LoaderCodes(loader) == { LoaderCode(loader, LoaderSteps[i]) : i \in 1..5 }

LoaderReturned == lfn = "certificate_create_from_file"

(***************************************************************************)
(* C23: each certificate loader returns the code of the first step that    *)
(* fails, in the order stat, buffer allocation, open, read (a short read   *)
(* is a read failure), decode; the five codes of a loader are pairwise     *)
(* distinct and non-zero, the private loader's are the ERROR_PRIVATE_CERT_ *)
(* codes and the public loader's the ERROR_PUBLIC_CERT_ codes, and         *)
(* STATUS_SUCCESS is returned only if all five steps succeed.              *)
(***************************************************************************)
C23_LoaderCodeIsFirstFailure ==
    LoaderReturned =>
        LET failing == LoaderFailing(larg.o)
        IN  /\ failing = {} <=> lret.retval = STATUS_SUCCESS
            /\ \A i \in failing :
                  (\A j \in failing : i <= j) =>
                      lret.retval = LoaderCode(larg.loader, LoaderSteps[i])
            /\ Cardinality(LoaderCodes(larg.loader)) = 5
            /\ STATUS_SUCCESS \notin LoaderCodes(larg.loader)
            /\ larg.loader = "private" =>
                  LoaderCodes(larg.loader) =
                      {ERROR_PRIVATE_CERT_STAT, ERROR_PRIVATE_CERT_BUFFER_CREATE,
                       ERROR_PRIVATE_CERT_FILE_OPEN, ERROR_PRIVATE_CERT_FILE_READ,
                       ERROR_PRIVATE_CERT_FILE_PARSE}
            /\ larg.loader = "public" =>
                  LoaderCodes(larg.loader) =
                      {ERROR_PUBLIC_CERT_STAT, ERROR_PUBLIC_CERT_BUFFER_CREATE,
                       ERROR_PUBLIC_CERT_FILE_OPEN, ERROR_PUBLIC_CERT_FILE_READ,
                       ERROR_PUBLIC_CERT_FILE_PARSE}

C23_Witness ==
    /\ LoaderReturned
    /\ larg.o.stat /\ larg.o.buffer /\ larg.o.open /\ larg.o.read_ok
    /\ larg.o.read_bytes < larg.o.file_size
    /\ ~larg.o.decode
    /\ lret.retval = ERROR_PRIVATE_CERT_FILE_READ

Count(ops, op) == Cardinality({ i \in 1..Len(ops) : ops[i] = op })

(***************************************************************************)
(* C24: on every exit path of both loaders the file buffer is disposed     *)
(* once if it was created and never otherwise, and the file descriptor is  *)
(* closed once if the open succeeded and never otherwise.                  *)
(***************************************************************************)
C24_LoaderReleasesWhatItAcquired ==
    LoaderReturned =>
        LET created == larg.o.stat /\ larg.o.buffer
            opened == created /\ larg.o.open
        IN  /\ Count(lret.ops, "buffer_init") <= 1
            /\ Count(lret.ops, "file_open") <= 1
            /\ created => Count(lret.ops, "buffer_init") = 1
            /\ opened => Count(lret.ops, "file_open") = 1
            /\ Count(lret.ops, "dispose") = IF created THEN 1 ELSE 0
            /\ Count(lret.ops, "close") = IF opened THEN 1 ELSE 0
            /\ \A i \in 1..Len(lret.ops) :
                  /\ lret.ops[i] = "dispose" =>
                        \E j \in 1..(i - 1) : lret.ops[j] = "buffer_init"
                  /\ lret.ops[i] = "close" =>
                        \E j \in 1..(i - 1) : lret.ops[j] = "file_open"

C24_Witness ==
    /\ LoaderReturned
    /\ larg.o.stat /\ larg.o.buffer /\ ~larg.o.open
    /\ lret.ops = << "file_stat", "buffer_init", "file_open", "dispose" >>
    /\ lret.retval = ERROR_PUBLIC_CERT_FILE_OPEN

\* The calls of main that sent a request of kind req.
SentRequest(req) ==
    { i \in 1..Len(ptrace) :
        /\ ptrace[i].kind = "helper"
        /\ HelperTable[ptrace[i].fn].req = req
        /\ ptrace[i].io # << >>
        /\ ptrace[i].io[1] = "send" }

\* The calls of main to fn that returned STATUS_SUCCESS.
CallSucceeded(fn) ==
    { i \in 1..Len(ptrace) :
        ptrace[i].fn = fn /\ ptrace[i].code = STATUS_SUCCESS }

(***************************************************************************)
(* C25: status_close sends STATUS_GET only after agentd_connection_init    *)
(* succeeded, sends CLOSE only after get_and_verify_status succeeded, and  *)
(* exits 0 only after send_and_verify_close_connection succeeded, which is *)
(* the last of the three; each request is sent at most once.               *)
(***************************************************************************)
C25_StatusCloseOrder ==
    prog = "status_close" =>
        /\ \A i \in SentRequest(PROTOCOL_REQ_ID.STATUS_GET) :
              /\ ptrace[i].fn = "get_and_verify_status"
              /\ \E j \in CallSucceeded("agentd_connection_init") : j < i
        /\ \A i \in SentRequest(PROTOCOL_REQ_ID.CLOSE) :
              /\ ptrace[i].fn = "send_and_verify_close_connection"
              /\ \E j \in CallSucceeded("get_and_verify_status") :
                    /\ j < i
                    /\ j \in SentRequest(PROTOCOL_REQ_ID.STATUS_GET)
        /\ Cardinality(SentRequest(PROTOCOL_REQ_ID.STATUS_GET)) <= 1
        /\ Cardinality(SentRequest(PROTOCOL_REQ_ID.CLOSE)) <= 1
        /\ (ppc = "exited" /\ pretval = STATUS_SUCCESS) =>
              /\ CallSucceeded("send_and_verify_close_connection") # {}
              /\ CallSucceeded("send_and_verify_close_connection")
                    \subseteq SentRequest(PROTOCOL_REQ_ID.CLOSE)
              /\ ptrace[Len(ptrace)].fn = "send_and_verify_close_connection"

C25_Witness ==
    /\ prog = "status_close"
    /\ ppc = "exited"
    /\ pretval = STATUS_SUCCESS
    /\ SentRequest(PROTOCOL_REQ_ID.STATUS_GET) # {}
    /\ SentRequest(PROTOCOL_REQ_ID.CLOSE) # {}

\* The value main compared under the name var the last time it checked it.
Reported(var) ==
    LET at == { i \in 1..Len(LinkChecks) : LinkChecks[i].var = var }
    IN  larg.seen[CHOOSE i \in at : \A j \in at : j <= i]

LinksVerified ==
    /\ Reported("prev_txn1_id") = "zero_uuid"
    /\ Reported("next_txn1_id") = "txn2_id"
    /\ Reported("prev_txn2_id") = "txn1_id"
    /\ Reported("next_txn2_id") = "txn3_id"
    /\ Reported("prev_txn3_id") = "txn2_id"
    /\ Reported("next_txn3_id") = "ff_uuid"

ChecksPassed == lfn = "submit_multiple_txns" /\ lret = STATUS_SUCCESS

(***************************************************************************)
(* C26 as stated: submit_multiple_txns passes its checks only if the block *)
(* ids reported for the three transactions are one and the same UUID and   *)
(* the six links are the expected ones.                                    *)
(***************************************************************************)
C26_ThreeTxnsShareOneBlock ==
    ChecksPassed =>
        /\ \A n, k \in 1..3 :
              /\ larg.block_id[n] = larg.block_id[k]
              /\ larg.block_id2[n] = larg.block_id2[k]
        /\ LinksVerified

(***************************************************************************)
(* C26 amended: submit_multiple_txns passes its checks only if, for each   *)
(* of the three transactions, the block id in the answer to                *)
(* TRANSACTION_BY_ID_GET equals the block id in the answer to              *)
(* TRANSACTION_ID_GET_BLOCK_ID, and the six links are the expected ones.   *)
(***************************************************************************)
C26_BlockIdQueriesAgreePerTxn ==
    ChecksPassed =>
        /\ \A n \in 1..3 : larg.block_id[n] = larg.block_id2[n]
        /\ LinksVerified

C26_Witness ==
    /\ ChecksPassed
    /\ larg.block_id[1] # larg.block_id[2]
    /\ larg.block_id[2] # larg.block_id[3]

\* The calls of main whose callee's name is in fns, whatever they returned.
Called(fns) == { i \in 1..Len(ptrace) : ptrace[i].fn \in fns }

(***************************************************************************)
(* C27: test_handshake exits 0 only after the whole four-step handshake:   *)
(* the request was sent, the response was received with status 0, the      *)
(* server id and the server public key of the response were compared with  *)
(* the pinned agentd.pub certificate, the acknowledgement was sent, and    *)
(* the response to the acknowledgement was received, in that order.        *)
(***************************************************************************)
C27_TestHandshakeCompletesHandshake ==
    (prog = "test_handshake" /\ ppc = "exited" /\ pretval = STATUS_SUCCESS) =>
        \E req \in CallSucceeded("vcblockchain_protocol_sendreq_handshake_request"),
           rsp \in CallSucceeded("vcblockchain_protocol_recvresp_handshake_request"),
           st \in CallSucceeded("status"),
           vid \in Called({"verify_server_id"}),
           vkey \in Called({"verify_server_pubkey"}),
           ack \in CallSucceeded("vcblockchain_protocol_sendreq_handshake_ack"),
           fin \in Called({"recv_handshake_ack",
                           "vcblockchain_protocol_recvresp_handshake_ack"}) :
            /\ req < rsp /\ rsp < st /\ st < vid /\ vid < vkey
            /\ vkey < ack /\ ack < fin
            /\ ptrace[vid].code = STATUS_SUCCESS
            /\ ptrace[vkey].code = STATUS_SUCCESS
            /\ ptrace[fin].code = STATUS_SUCCESS

PayloadSizeRead == lfn = "get_payload_size"

(***************************************************************************)
(* C28: the payload of the sentinel's SENDRESP has the configured size.    *)
(* The configured size is the number PING_SENTINEL_PAYLOAD_SIZE parses to  *)
(* when that is positive and in range (1024 gives 1024), and 1 when the    *)
(* variable is unset, parses to 0 or overflows; it is never less than 1.   *)
(***************************************************************************)
C28_PayloadHasConfiguredSize ==
    PayloadSizeRead =>
        LET n == Decimal(larg.text.digits)
        IN  /\ lret.size >= 1
            /\ Len(lret.dispatch.sent) = 1
            /\ lret.dispatch.sent[1].resp.size = lret.size
            /\ ~larg.set => lret.size = 1
            /\ (larg.set /\ larg.text.sign # "-" /\ n >= 1 /\ n <= UINTMAX_MAX)
                  => lret.size = n
            /\ (larg.set /\ (n = 0 \/ n > UINTMAX_MAX)) => lret.size = 1
            /\ (larg.set /\ larg.text.sign = "" /\ ~larg.text.rest
                /\ larg.text.digits = << 1, 0, 2, 4 >>) => lret.size = 1024

C28_Witness ==
    /\ PayloadSizeRead
    /\ larg.set
    /\ larg.text = [sign |-> "", digits |-> << 1, 0, 2, 4 >>, rest |-> FALSE]
    /\ lret.dispatch.sent[1].resp.size = 1024
    /\ lret.dispatch.sent[1].resp.status = STATUS_SUCCESS

ServerCertReleaseFailed ==
    /\ pc = "returned"
    /\ success
    /\ release_retval.server_cert # STATUS_SUCCESS

(***************************************************************************)
(* C30: agentd_connection_init releases no resource twice, and when it     *)
(* has returned, a resource it initialised and did not release is one of   *)
(* the three the caller owns after a zero return.  When the handshake      *)
(* succeeded and releasing the server public certificate failed, it        *)
(* returns a release error and has released the shared secret, the socket  *)
(* and the client private certificate once each; after a non-zero return   *)
(* none of the three is live.                                              *)
(***************************************************************************)
C30_NoDoubleReleaseNoLeak ==
    /\ \A r \in Resources : rel[r] <= 1
    /\ pc = "returned" =>
          \A r \in Resources :
              (acq[r] = 1 /\ rel[r] = 0) =>
                  r \in CallerOwned /\ retval = STATUS_SUCCESS
    /\ ServerCertReleaseFailed =>
          /\ retval # STATUS_SUCCESS
          /\ retval \in {release_retval.server_cert, release_retval.cert}
          /\ release_retval.cert = STATUS_SUCCESS =>
                retval = release_retval.server_cert
          /\ \A r \in CallerOwned : acq[r] = 1 /\ rel[r] = 1
    /\ (pc = "returned" /\ retval # STATUS_SUCCESS) =>
          \A r \in CallerOwned : acq[r] = 1 => (rel[r] = 1 /\ r \notin nonnull)

C30_Witness ==
    /\ ServerCertReleaseFailed
    /\ release_retval.cert = STATUS_SUCCESS
    /\ retval = release_retval.server_cert
    /\ rel["shared_secret"] = 1
    /\ rel["sock"] = 1
    /\ rel["cert"] = 1
    /\ rel["response"] = 1

\* The counters advanced by dc and ds since the current helper call began.
AdvancedBy(dc, ds) ==
    /\ client_iv = exch.client_iv + dc
    /\ server_iv = exch.server_iv + ds

\* The codes of helper k's checks on a response it received.
CheckCodes(k) ==
    { HelperTable[k].decode, HelperTable[k].request_id, HelperTable[k].status,
      HelperTable[k].offset_code, HelperTable[k].body }
    \ { STATUS_SUCCESS, HelperTable[k].send, HelperTable[k].recv }

(***************************************************************************)
(* C31: over any sequence of helper calls on a session, failing calls      *)
(* included, client_iv is 2 plus the requests that went out and server_iv  *)
(* is 2 plus the responses that came in.  A call that failed in its send   *)
(* advanced neither counter, a call that failed in its receive advanced    *)
(* client_iv alone, and a call whose response was received advanced both   *)
(* by one whatever its checks found.                                       *)
(***************************************************************************)
C31_CountersFollowTheExchange ==
    pc = "session" =>
        /\ client_iv = 2 + exch.sent
        /\ server_iv = 2 + exch.received
        /\ exch.received <= exch.sent
        /\ HelperReturned =>
              /\ (Len(io) = 1 /\ ~io[1].ok) => AdvancedBy(0, 0)
              /\ (Len(io) = 2 /\ ~io[2].ok) => AdvancedBy(1, 0)
              /\ (Len(io) = 2 /\ io[2].ok) => AdvancedBy(1, 1)
              /\ hret \in CheckCodes(kind) => AdvancedBy(1, 1)

\* a second call started after a first one whose checks failed, and failed
\* in its receive
C31_Witness ==
    /\ HelperReturned
    /\ ncalls = 2
    /\ nfailed = 2
    /\ Len(io) = 2
    /\ ~io[2].ok
    /\ exch.sent = 2
    /\ exch.received = 1
    /\ client_iv = 4
    /\ server_iv = 3

\* The helper call in progress received a response.
ResponseReceived == Len(io) = 2 /\ io[2].ok

(***************************************************************************)
(* C32: a helper writes the caller's output parameters on its success      *)
(* path only.  On a non-zero return they hold what they held when the      *)
(* helper was called and no certificate buffer was moved; on success they  *)
(* hold the decoded values, the certificate (for the two helpers that      *)
(* return one) was moved once, and the decoded structure was disposed      *)
(* once.  The response buffer is disposed once exactly when a response was *)
(* received.                                                               *)
(***************************************************************************)
C32_OutputsWrittenOnSuccessOnly ==
    HelperReturned =>
        /\ hret # STATUS_SUCCESS =>
              /\ out = exch.out
              /\ Count(exch.released, "move") = 0
              /\ Count(exch.released, "decoded") = 0
        /\ hret = STATUS_SUCCESS =>
              /\ ResponseReceived
              /\ out = resp.body
              /\ Count(exch.released, "move") =
                    IF kind \in CertHelpers THEN 1 ELSE 0
              /\ Count(exch.released, "decoded") =
                    IF HelperTable[kind].decodes_body THEN 1 ELSE 0
        /\ Count(exch.released, "response") =
              IF ResponseReceived THEN 1 ELSE 0

\* get_and_verify_txn failed at its offset check after an earlier call had
\* filled the caller's outputs
C32_Witness ==
    /\ HelperReturned
    /\ kind = "get_and_verify_txn"
    /\ hret = HelperTable[kind].offset_code
    /\ ResponseReceived
    /\ ncalls = 2
    /\ exch.out # Unset
    /\ out = exch.out
    /\ out # resp.body
    /\ exch.released = << "response" >>

\* the call of send_and_verify_ping_request under study has returned
PingChecked == lfn = "send_and_verify_ping_request"

\* the header checks the response of the call fails
IdWrong ==
    header_request_id(larg.r) # PROTOCOL_REQ_ID.EXTENDED_API_SENDRECV
StatusWrong == header_status(larg.r) # STATUS_SUCCESS
OffsetWrong == header_offset(larg.r) # larg.offset

\* C33: once the header of the response is decoded,
\* send_and_verify_ping_request returns non-zero whenever the request id,
\* the status or the offset is wrong; the code is the offset code when the
\* offset is wrong, else the status code when the status is wrong, else the
\* request id code; and the body is decoded only when all three are right.
C33_LastFailingCheckWins ==
    (PingChecked /\ decode_header_ok(larg.r)) =>
        /\ (IdWrong \/ StatusWrong \/ OffsetWrong)
              <=> lret.retval # STATUS_SUCCESS
        /\ OffsetWrong
              => lret.retval = UNLISTED_CODE.ERROR_PING_RESPONSE_OFFSET
        /\ (StatusWrong /\ ~OffsetWrong)
              => lret.retval = UNLISTED_CODE.ERROR_PING_RESPONSE_STATUS_CODE
        /\ (IdWrong /\ ~StatusWrong /\ ~OffsetWrong)
              => lret.retval = UNLISTED_CODE.ERROR_PING_RESPONSE_ID
        /\ Count(lret.calls, "decode_resp_extended_api")
              = IF IdWrong \/ StatusWrong \/ OffsetWrong THEN 0 ELSE 1

\* a response wrong in request id and offset but with status 0 got the
\* offset code and its body was not decoded
C33_Witness ==
    /\ PingChecked
    /\ decode_header_ok(larg.r)
    /\ IdWrong
    /\ ~StatusWrong
    /\ OffsetWrong
    /\ lret.retval = UNLISTED_CODE.ERROR_PING_RESPONSE_OFFSET
    /\ lret.calls = << "decode_header" >>

\* the sentinel's log entry i is a receive of a decoded request whose verb
\* is not the PING verb
UnknownVerbReq(i) == DecodedClientReq(i) /\ slog[i].msg.body[2] # VERB_PING

\* log entry i + 1 is the response to request i: one SENDRESP with the
\* offset of the request and the invalid-verb status
InvalidVerbReply(i) ==
    /\ i < Len(slog)
    /\ slog[i + 1].ev = "send"
    /\ slog[i + 1].resp.offset = slog[i].msg.body[3]
    /\ slog[i + 1].resp.status =
            UNLISTED_CODE.ERROR_READ_EXTENDED_API_INVALID_VERB
    /\ (i + 1 < Len(slog)) => slog[i + 2].ev # "send"

\* the acknowledgement of the response to request i was read and accepted:
\* the dispatch of request i returned STATUS_SUCCESS
DispatchSucceeded(i) ==
    /\ i + 2 <= Len(slog)
    /\ slog[i + 2].ev = "ack"
    /\ SentinelCheckAck(slog[i + 2].msg) = STATUS_SUCCESS

\* the sentinel left its loop in the dispatch of request i
DispatchFailed(i) == spc = "returned" /\ ~DispatchSucceeded(i)

\* C34 as claimed: a CLIENTREQ whose verb is not PING gets one SENDRESP with
\* its offset and the status ERROR_READ_EXTENDED_API_INVALID_VERB, and its
\* dispatch never ends the sentinel.
C34_UnknownVerbNeverEndsSentinel ==
    \A i \in 1..Len(slog) :
        UnknownVerbReq(i) => (InvalidVerbReply(i) /\ ~DispatchFailed(i))

\* C34 as amended: a CLIENTREQ whose verb is not PING gets one SENDRESP with
\* its offset and the status ERROR_READ_EXTENDED_API_INVALID_VERB, never a
\* status-0 reply, unless the response body buffer cannot be allocated; its
\* dispatch returns success when the send succeeds and the acknowledgement
\* is read, and ends the sentinel only with the out-of-memory code, the
\* write code, or a code of the read of the acknowledgement.
C34_UnknownVerbRepliedWithInvalidVerb ==
    \A i \in 1..Len(slog) :
        UnknownVerbReq(i) =>
            /\ \/ InvalidVerbReply(i)
               \/ /\ i = Len(slog)
                  /\ spc = "returned"
                  /\ sretval =
                        UNLISTED_CODE.ERROR_READ_EXTENDED_API_OUT_OF_MEMORY
            /\ \A j \in 1..Len(slog) :
                  (j > i /\ slog[j].ev = "send"
                         /\ slog[j].resp.offset = slog[i].msg.body[3])
                     => slog[j].resp.status # STATUS_SUCCESS
            /\ (InvalidVerbReply(i) /\ slog[i + 1].ok /\ i + 2 <= Len(slog)
                    /\ slog[i + 2].msg = SendRespAck)
                  => DispatchSucceeded(i)
            /\ (InvalidVerbReply(i) /\ DispatchFailed(i)) =>
                  \/ /\ ~slog[i + 1].ok
                     /\ sretval =
                          UNLISTED_CODE.ERROR_WRITE_EXTENDED_API_RESPONSE
                  \/ /\ slog[i + 1].ok
                     /\ i + 1 = Len(slog)
                     /\ sretval =
                          UNLISTED_CODE.ERROR_READ_EXTENDED_API_RESPONSE
                  \/ /\ slog[i + 1].ok
                     /\ i + 2 = Len(slog)
                     /\ sretval = SentinelCheckAck(slog[i + 2].msg)

\* the sentinel answered a request with an unknown verb with the
\* invalid-verb status, read the acknowledgement and is serving again
C34_Witness ==
    /\ spc = "read_request"
    /\ \E i \in 1..Len(slog) :
          /\ UnknownVerbReq(i)
          /\ InvalidVerbReply(i)
          /\ slog[i + 1].ok
          /\ DispatchSucceeded(i)

\* the resources main cleaned up on its way out, in order
Cleaned ==
    IF ppc = "exited"
    THEN [i \in 1..Len(CleanedFrom(prog, plabel)) |->
              CleanedFrom(prog, plabel)[i].res]
    ELSE << >>

\* the calls of main to fn so far
CallsOf(fn) == SelectSeq(ptrace, LAMBDA t : t.fn = fn)

\* the sentinel reached its service loop
LoopEntered ==
    /\ prog = "ping_sentinel"
    /\ CallsOf("read_decode_and_dispatch_request") # << >>

\* C35: the ping sentinel's service loop has no successful exit: every
\* dispatch but the last returned success and nothing follows a failed
\* one; the program exits only with a non-zero code, never calls the close
\* helper, and on leaving the loop cleans up the private certificate, the
\* shared secret and the socket exactly once each.
C35_SentinelLoopEndsOnlyOnFailure ==
    prog = "ping_sentinel" =>
        /\ CallsOf("send_and_verify_close_connection") = << >>
        /\ ppc = "exited" => pretval # STATUS_SUCCESS
        /\ \A i \in 1..Len(ptrace) :
              (ptrace[i].fn = "read_decode_and_dispatch_request"
                    /\ i < Len(ptrace)) =>
                  /\ ptrace[i].code = STATUS_SUCCESS
                  /\ ptrace[i + 1].fn = "read_decode_and_dispatch_request"
        /\ (LoopEntered /\ ppc \in {"cleanup", "exited"}) =>
              /\ ptrace[Len(ptrace)].fn = "read_decode_and_dispatch_request"
              /\ ptrace[Len(ptrace)].code # STATUS_SUCCESS
        /\ (LoopEntered /\ ppc = "exited") =>
              /\ Count(Cleaned, "client_priv") = 1
              /\ Count(Cleaned, "shared_secret") = 1
              /\ Count(Cleaned, "sock") = 1
              /\ Count(preleased, [res |-> "client_priv",
                                   code |-> STATUS_SUCCESS])
                 + Count(preleased, [res |-> "client_priv", code |-> 4097])
                 + Count(preleased, [res |-> "client_priv", code |-> 4098])
                    = 1

\* the sentinel served one request, failed in the second dispatch and
\* exited through cleanup_connection
C35_Witness ==
    /\ LoopEntered
    /\ ppc = "exited"
    /\ plabel = "cleanup_connection"
    /\ Len(CallsOf("read_decode_and_dispatch_request")) = 2
    /\ ptrace[Len(ptrace)].code
          = UNLISTED_CODE.ERROR_READ_EXTENDED_API_BAD_REQUEST_ID
    /\ pretval = UNLISTED_CODE.ERROR_READ_EXTENDED_API_BAD_REQUEST_ID
    /\ Cleaned[1] = "client_priv"

\* the pings multi_ping_client issued so far
Pings == CallsOf("send_and_verify_ping_request")

\* C36: multi_ping_client issues at most MaxRounds pings (10000 in the
\* source, bounded here), one request and one response at a time, the i-th
\* (from 0) with offset 5 + i; a failed ping is the last call main makes,
\* so no ping or CLOSE follows it; and the close helper is called at most
\* once, only after all the pings succeeded, and always then.
C36_PingsInSequenceThenClose ==
    prog = "multi_ping_client" =>
        /\ Len(Pings) <= MaxRounds
        /\ \A i \in 1..Len(Pings) :
              /\ Pings[i].ctr = 5 + (i - 1)
              /\ Pings[i].io \in {<< >>, << "send" >>, << "send", "recv" >>}
              /\ \A j \in 1..Len(Pings) : i # j => Pings[i].ctr # Pings[j].ctr
        /\ \A i \in 1..Len(ptrace) :
              (ptrace[i].fn = "send_and_verify_ping_request"
                    /\ ptrace[i].code # STATUS_SUCCESS) =>
                  /\ i = Len(ptrace)
                  /\ ppc \in {"cleanup", "exited"}
        /\ Len(CallsOf("send_and_verify_close_connection")) <= 1
        /\ CallsOf("send_and_verify_close_connection") # << >> =>
              /\ Len(Pings) = MaxRounds
              /\ \A i \in 1..Len(Pings) : Pings[i].code = STATUS_SUCCESS
        /\ (ppc \in {"cleanup", "exited"} /\ Len(Pings) = MaxRounds
                /\ \A i \in 1..Len(Pings) : Pings[i].code = STATUS_SUCCESS)
              => Len(CallsOf("send_and_verify_close_connection")) = 1

\* the first ping succeeded with offset 5, the second failed with offset 6
\* and the program exited without calling the close helper
C36_Witness ==
    /\ prog = "multi_ping_client"
    /\ ppc = "exited"
    /\ Len(Pings) = 2
    /\ Pings[1].code = STATUS_SUCCESS
    /\ Pings[1].ctr = 5
    /\ Pings[2].code = UNLISTED_CODE.ERROR_PING_RESPONSE_OFFSET
    /\ Pings[2].ctr = 6
    /\ CallsOf("send_and_verify_close_connection") = << >>
    /\ pretval = UNLISTED_CODE.ERROR_PING_RESPONSE_OFFSET

\* the codes status_codes.h names for each comparison of
\* submit_multiple_txns, by the value compared; the ids read a second time
\* have a second code
TxnCheckCodes ==
    [ prev_txn1_id |-> {ERROR_TXN1_PREV_ID_MISMATCH},
      next_txn1_id |-> {ERROR_TXN1_NEXT_ID_MISMATCH,
                        ERROR_TXN1_NEXT_ID_MISMATCH2},
      txn1_artifact_id |-> {ERROR_TXN1_ARTIFACT_ID_MISMATCH},
      prev_txn2_id |-> {ERROR_TXN2_PREV_ID_MISMATCH,
                        ERROR_TXN2_PREV_ID_MISMATCH2},
      next_txn2_id |-> {ERROR_TXN2_NEXT_ID_MISMATCH,
                        ERROR_TXN2_NEXT_ID_MISMATCH2},
      txn2_artifact_id |-> {ERROR_TXN2_ARTIFACT_ID_MISMATCH},
      prev_txn3_id |-> {ERROR_TXN3_PREV_ID_MISMATCH,
                        ERROR_TXN3_PREV_ID_MISMATCH2},
      next_txn3_id |-> {ERROR_TXN3_NEXT_ID_MISMATCH},
      txn3_artifact_id |-> {ERROR_TXN3_ARTIFACT_ID_MISMATCH},
      txn1_block_id |-> {ERROR_TXN1_BLOCK_ID_MISMATCH},
      txn2_block_id |-> {ERROR_TXN2_BLOCK_ID_MISMATCH},
      txn3_block_id |-> {ERROR_TXN3_BLOCK_ID_MISMATCH} ]

\* every code named for a comparison of submit_multiple_txns
AllTxnCheckCodes == UNION { TxnCheckCodes[f] : f \in DOMAIN TxnCheckCodes }

\* submit_multiple_txns exited after a failed call or comparison, with
\* every release of its cleanup chain succeeding
TxnsExitedOnFailure ==
    /\ prog = "submit_multiple_txns"
    /\ ppc = "exited"
    /\ ReleasesSucceeded
    /\ ptrace # << >>
    /\ ptrace[Len(ptrace)].code # STATUS_SUCCESS

\* C37: in submit_multiple_txns a failed comparison exits with the code
\* named for the transaction and field compared, and no other failure
\* exits with a code named for a comparison, so the exit code identifies
\* the failed check.
C37_ExitCodeIdentifiesCheck ==
    TxnsExitedOnFailure =>
        /\ ptrace[Len(ptrace)].kind = "check" =>
              pretval \in TxnCheckCodes[ptrace[Len(ptrace)].fn]
        /\ ptrace[Len(ptrace)].kind # "check" =>
              pretval \notin AllTxnCheckCodes

\* C38: test_get_latest_block_empty reaches its cleanup chain with code 0
\* only if the response header has request_id LATEST_BLOCK_ID_GET, status 0
\* and the offset 0x1337 it sent and the decoded block id is the root block
\* UUID; a response with any other offset is rejected.
C38_LatestBlockEmptyChecksOffset ==
    lfn = "test_get_latest_block_empty" =>
        /\ lret.retval = 0 =>
              /\ decode_header_ok(larg.r)
              /\ header_request_id(larg.r)
                    = PROTOCOL_REQ_ID.LATEST_BLOCK_ID_GET
              /\ header_status(larg.r) = STATUS_SUCCESS
              /\ header_offset(larg.r) = larg.offset
              /\ larg.r.body = << ROOT_BLOCK_UUID >>
        /\ (decode_header_ok(larg.r) /\ header_offset(larg.r) # larg.offset)
              => lret.retval # 0

\* how many of the first i calls of main were calls of the function called
\* at i
Occurrence(i) ==
    Cardinality({ j \in 1..i : ptrace[j].fn = ptrace[i].fn })

\* what call i of main left main owning
AcquiredAt(i) ==
    LET a == ProgAcquires[prog]
        fn == ptrace[i].fn
    IN  IF /\ ptrace[i].code = STATUS_SUCCESS
           /\ fn \in DOMAIN a
           /\ Occurrence(i) <= Len(a[fn])
        THEN a[fn][Occurrence(i)]
        ELSE {}

\* everything main acquired
Acquired == Preacquired \cup UNION { AcquiredAt(i) : i \in 1..Len(ptrace) }

\* the call that acquired res, 0 for what main owns from the start
AcquiredBy(res) ==
    IF res \in Preacquired THEN 0
    ELSE CHOOSE i \in 1..Len(ptrace) : res \in AcquiredAt(i)

\* C39: when an example program has run its cleanup chain, the chain
\* released every resource main acquired and nothing else, each exactly
\* once, and what a later call acquired before what an earlier call
\* acquired (resources one call returns together count as acquired
\* together).
C39_ChainReleasesAcquiredInReverse ==
    ppc = "exited" =>
        /\ \A i, j \in 1..Len(Cleaned) : i # j => Cleaned[i] # Cleaned[j]
        /\ { Cleaned[i] : i \in 1..Len(Cleaned) } = Acquired
        /\ \A i, j \in 1..Len(Cleaned) :
              i < j => AcquiredBy(Cleaned[i]) >= AcquiredBy(Cleaned[j])

\* submit_multiple_txns read txn1 back, failed to read txn2 and released
\* the fetched txn1 certificate, the three created certificates, the
\* session and the setup, in that order
C39_Witness ==
    /\ prog = "submit_multiple_txns"
    /\ ppc = "exited"
    /\ plabel = "cleanup_txn1_agentd_cert"
    /\ ptrace[Len(ptrace)].fn = "get_and_verify_txn"
    /\ ptrace[Len(ptrace)].code # STATUS_SUCCESS
    /\ Cleaned = << "txn1_cert", "cert3_buffer", "cert2_buffer",
                    "cert1_buffer", "client_priv", "shared_secret", "sock",
                    "file", "parser_options", "builder_opts", "suite",
                    "alloc", "alloc_opts" >>

====
